---- MODULE Spec2Model ----
(***************************************************************************)
(* Annotation scene and undo/redo history of the screenshot editor         *)
(* (AnnotationCanvas component, src/src/components/editor/ColorPicker.tsx  *)
(* lines 75-1069, driven by EditorApp.tsx).                                *)
(*                                                                         *)
(* One action per event handler.  A handler runs to completion together    *)
(* with the promise continuations (microtasks) it schedules; the only      *)
(* point where another event can run in the middle of a handler is an      *)
(* image decode (fabric.FabricImage.fromURL), which completes in a later   *)
(* task.  Optional values (null refs) are sequences of length 0 or 1.      *)
(***************************************************************************)
EXTENDS Integers, Sequences, FiniteSets, TLC

VARIABLES
  tool,             \* editorState.tool
  padding,          \* editorState.padding
  objects,          \* canvas.getObjects(), back to front
  imageRef,         \* imageRef.current: <<>> or <<"sourceImage">>
  bgRectRef,        \* bgRectRef.current: <<>> or <<"bgRect">>
  isDrawing,        \* isDrawing (React state)
  startPointRef,    \* startPointRef.current: <<>> or <<point>>
  activeShapeRef,   \* activeShapeRef.current: <<>> or <<object>>
  pointerDown,      \* fabric: a mouse:down was dispatched, its mouse:up not yet
  upPending,        \* fabric: object:modified fired, mouse:up of the same event follows
  historyRef,       \* historyRef.current: sequence of entries (json snapshots)
  historyIndexRef,  \* historyIndexRef.current
  isRestoringRef,   \* isRestoringRef.current
  restores,         \* restoreFromHistory calls suspended in an image decode
  lastCall,         \* what the last handler did: a branch of saveToHistory, undo, ...
  actionCount,      \* scenario counter: handlers that completed a mutation
  undoCount,        \* scenario counter: undo() calls
  redoCount,        \* scenario counter: redo() calls
  blurCall,         \* a call of createBlurRegion on its own: <<>> or <<arguments, result>>
  gradientCall,     \* a call of parseGradient on its own: <<>> or <<arguments, result>>
  editorApp,        \* which definition of EditorApp in EditorApp.tsx is built: "first" / "second"
  zoom,             \* editorState.zoom, in thousandths
  borderRadius,     \* editorState.borderRadius
  backgroundColor,  \* editorState.backgroundColor: a descriptor (sequence of tokens)
  containerSize,    \* containerSize (React state of EditorApp)
  hasCalculatedInitialZoomRef,  \* hasCalculatedInitialZoomRef.current
  canvasZoom,       \* canvas.getZoom(), in thousandths
  canvasDims,       \* size of the display surface (canvas.setDimensions), in thousandths of a pixel
  clipPath,         \* canvas.clipPath: <<>> or <<clip>>
  bgFill,           \* the fill of bgRectRef.current: <<>> before it exists, else <<fill>>
  exported,         \* the last exportToDataURL call: <<>> or <<what it rasterised and returned>>
  fabricRef,        \* fabricRef.current: the number of the canvas, 0 for null
  isMountedRef,     \* isMountedRef.current
  canvases,         \* fabric canvases made so far (the last one has this number)
  decodes,          \* FabricImage.fromURL calls not yet settled: canvas and editorState of their closure
  layersOf,         \* the canvas imageRef.current and bgRectRef.current were added to, 0 for null
  staleWrites       \* canvases that got layers added after their dispose()

sceneVars   == <<tool, padding, objects, imageRef, bgRectRef>>
gestureVars == <<isDrawing, startPointRef, activeShapeRef, pointerDown, upPending>>
historyVars == <<historyRef, historyIndexRef, isRestoringRef, restores, lastCall>>
countVars   == <<actionCount, undoCount, redoCount>>
callVars    == <<blurCall, gradientCall>>
appVars     == <<editorApp, zoom, borderRadius, backgroundColor, containerSize>>
canvasVars  == <<hasCalculatedInitialZoomRef, canvasZoom, canvasDims, clipPath, bgFill, exported>>
viewVars    == <<appVars, canvasVars>>
lifeVars    == <<fabricRef, isMountedRef, canvases, decodes, layersOf, staleWrites>>
vars        == <<sceneVars, gestureVars, historyVars, countVars, callVars, viewVars, lifeVars>>

-----------------------------------------------------------------------------
(* Program constants *)

maxHistorySize == 50
headLength == 15
minBlurSize == 5
defaultBlockSize == 8

\* EditorApp initial state: padding 32 on every side, tool 'select'.
InitialPadding == [top |-> 32, right |-> 32, bottom |-> 32, left |-> 32]

-----------------------------------------------------------------------------
(* Bounds and inputs of the model *)

MaxHist == 3       \* Spec: log entries kept within this many
MaxObjs == 2       \* Spec, SpecLong: annotation objects on the canvas
MaxPending == 1    \* restores suspended in a decode at the same time
MaxControlHist == 2  \* SpecControls: log entries kept within this many
MaxControlObjs == 2  \* SpecControls: annotation objects on the canvas
MaxScenes == 3     \* SpecLife: canvases created by the init effect in all
MaxActions == 61   \* SpecSeq: completed actions in a row
MaxRedo == 2       \* SpecSeq: redo() calls after the undos
MaxCoord == 240    \* Spec: no object is dragged beyond this coordinate
LongPrefix == 49   \* SpecLong: actions done one after the other before the rest
LongActions == 53  \* SpecLong: completed actions in all
LongUndos == 4     \* SpecLong: undo() calls
LongRedos == 1     \* SpecLong: redo() calls
RaceActions == 3   \* SpecRace: completed actions
RaceRestores == 2  \* SpecRace: undo() and redo() calls together

\* Decoded source image (img.width, img.height).
ImgSize == [width |-> 100, height |-> 100]

Pt(a, b) == [x |-> a, y |-> b]

\* Pointer positions in scene pixels: a drag over the image, and a drag that
\* overlaps the image only when the padding is large.
NearStart == Pt(40, 40)
NearEnd == Pt(120, 120)
FarStart == Pt(140, 140)
FarEnd == Pt(200, 200)

\* Ends of blur drags from NearStart: 4 wide, 4 high, and 5 by 5.
ThinEnd == Pt(44, 120)
FlatEnd == Pt(120, 44)
MinEnd == Pt(45, 45)

\* Padding presets offered by the padding controls (two of them).
Paddings == {InitialPadding, [top |-> 96, right |-> 96, bottom |-> 96, left |-> 96]}

Tools == {"select", "rect", "ellipse", "line", "arrow", "text", "blur"}

\* Drags of a selected object: a long one, a short one.
MoveFar == [kind |-> "move", by |-> 100]
MoveNear == [kind |-> "move", by |-> 10]

-----------------------------------------------------------------------------
(* Annotation objects *)

BaseObject ==
  [type |-> "", left |-> 0, top |-> 0, width |-> 0, height |-> 0,
   rx |-> 0, ry |-> 0, x1 |-> 0, y1 |-> 0, x2 |-> 0, y2 |-> 0,
   angle |-> 0, scaleX |-> 1, scaleY |-> 1, fill |-> "", text |-> "",
   src |-> FALSE, blurRegionData |-> <<>>, objects |-> <<>>,
   selectable |-> TRUE, evented |-> TRUE, live |-> FALSE]

Abs(n) == IF n < 0 THEN -n ELSE n
Max(a, b) == IF a > b THEN a ELSE b
Min(a, b) == IF a < b THEN a ELSE b

\* The two fixed layers created by the image load callback.
BgRect == [BaseObject EXCEPT !.type = "bgRect", !.selectable = FALSE, !.evented = FALSE]
SourceImage ==
  [BaseObject EXCEPT !.type = "sourceImage", !.selectable = FALSE, !.evented = FALSE,
                     !.width = ImgSize.width, !.height = ImgSize.height]

\* obj !== bgRectRef.current && obj !== imageRef.current
IsAnnotation(o) ==
  /\ ~(bgRectRef # <<>> /\ o.type = "bgRect")
  /\ ~(imageRef # <<>> /\ o.type = "sourceImage")

RECURSIVE SelectAnn(_)
SelectAnn(s) ==
  IF s = <<>> THEN <<>>
  ELSE IF IsAnnotation(Head(s)) THEN <<Head(s)>> \o SelectAnn(Tail(s))
       ELSE SelectAnn(Tail(s))

AnnotationObjects(objs) == SelectAnn(objs)
FixedLayers(objs) == SelectSeq(objs, LAMBDA o : ~IsAnnotation(o))

-----------------------------------------------------------------------------
(* Serialisation: obj.toObject(['id', 'objects', 'src']) plus blurRegionData.  *)
(* selectable / evented are not serialised properties, and the identity of    *)
(* the object (being the one activeShapeRef points at) is not a property.     *)

RECURSIVE Serialize(_)
RECURSIVE SerializeAll(_)
Serialize(o) ==
  [o EXCEPT !.selectable = TRUE, !.evented = TRUE, !.live = FALSE,
            !.objects = SerializeAll(o.objects)]
SerializeAll(s) ==
  IF s = <<>> THEN <<>> ELSE <<Serialize(Head(s))>> \o SerializeAll(Tail(s))

\* json: JSON.stringify of the serialised annotation objects.
Snapshot(objs) == SerializeAll(AnnotationObjects(objs))

-----------------------------------------------------------------------------
(* createBlurRegion(sourceImage, bounds, imagePadding, blockSize): <<>> for   *)
(* null, else the pixelated patch.                                            *)

\* Faulty variant: the crop is not cut at the left and top edges of the image.
CropUncutOf(sourceImage, bounds, imagePadding) ==
  LET cropLeft   == bounds.left - imagePadding.left
      cropTop    == bounds.top - imagePadding.top
      cropRight  == Min(sourceImage.width, bounds.left + bounds.width - imagePadding.left)
      cropBottom == Min(sourceImage.height, bounds.top + bounds.height - imagePadding.top)
  IN [left |-> cropLeft, top |-> cropTop,
      width |-> cropRight - cropLeft, height |-> cropBottom - cropTop]

\* The crop of lines 146-160, for a source image of any size.
CropOf(sourceImage, bounds, imagePadding) ==
  LET imageLeft  == imagePadding.left
      imageTop   == imagePadding.top
      imgWidth   == sourceImage.width
      imgHeight  == sourceImage.height
      cropLeft   == Max(0, bounds.left - imageLeft)
      cropTop    == Max(0, bounds.top - imageTop)
      cropRight  == Min(imgWidth, bounds.left + bounds.width - imageLeft)
      cropBottom == Min(imgHeight, bounds.top + bounds.height - imageTop)
  IN [left |-> cropLeft, top |-> cropTop,
      width |-> cropRight - cropLeft, height |-> cropBottom - cropTop]

\* The patch made from the crop c (lines 186-207).
BlurPatch(c, bounds, imagePadding, blockSize) ==
  [BaseObject EXCEPT
     !.type = "Image",
     !.left = imagePadding.left + c.left,
     !.top = imagePadding.top + c.top,
     !.width = c.width,
     !.height = c.height,
     !.src = TRUE,
     !.blurRegionData = << [originalBounds |-> bounds, blockSize |-> blockSize] >>]

\* createBlurRegion for a source image of any size.
createBlurRegionOf(sourceImage, bounds, imagePadding, blockSize) ==
  LET c == CropOf(sourceImage, bounds, imagePadding)
  IN IF c.width <= 0 \/ c.height <= 0 THEN <<>>
     ELSE << BlurPatch(c, bounds, imagePadding, blockSize) >>

\* The source image of the scene is the decoded image ImgSize.
Crop(bounds, imagePadding) ==
  LET imageLeft  == imagePadding.left
      imageTop   == imagePadding.top
      imgWidth   == ImgSize.width
      imgHeight  == ImgSize.height
      cropLeft   == Max(0, bounds.left - imageLeft)
      cropTop    == Max(0, bounds.top - imageTop)
      cropRight  == Min(imgWidth, bounds.left + bounds.width - imageLeft)
      cropBottom == Min(imgHeight, bounds.top + bounds.height - imageTop)
  IN [left |-> cropLeft, top |-> cropTop,
      width |-> cropRight - cropLeft, height |-> cropBottom - cropTop]

\* Faulty variant: a patch is made even when the crop is empty.
createBlurRegionUnclipped(bounds, imagePadding, blockSize) ==
  LET c == Crop(bounds, imagePadding)
  IN << [BaseObject EXCEPT
          !.type = "Image",
          !.left = imagePadding.left + c.left,
          !.top = imagePadding.top + c.top,
          !.width = c.width,
          !.height = c.height,
          !.src = TRUE,
          !.blurRegionData = << [originalBounds |-> bounds,
                                 blockSize |-> blockSize] >>] >>

createBlurRegion(bounds, imagePadding, blockSize) ==
  LET c == Crop(bounds, imagePadding)
  IN IF c.width <= 0 \/ c.height <= 0 THEN <<>>
     ELSE << [BaseObject EXCEPT
               !.type = "Image",
               !.left = imagePadding.left + c.left,
               !.top = imagePadding.top + c.top,
               !.width = c.width,
               !.height = c.height,
               !.src = TRUE,
               !.blurRegionData = << [originalBounds |-> bounds,
                                      blockSize |-> blockSize] >>] >>

-----------------------------------------------------------------------------
(* recreateObject(objData).  The closure restoreFromHistory keeps is the one  *)
(* of the first render (useCallback with no dependencies), so                 *)
(* editorState.padding in it is the padding of the first render.              *)
(* Result: wait = "decode" when the promise resolves only after an image      *)
(* decode (the src fallback), "none" otherwise; obj = <<>> for null.          *)

FromSerialized(objData) == objData

RECURSIVE recreateObject(_)
RECURSIVE RecreateChildren(_)
recreateObject(objData) ==
  CASE objData.type \in {"Rect", "Ellipse", "Line", "Triangle", "IText"} ->
         [wait |-> "none", obj |-> <<FromSerialized(objData)>>]
    [] objData.type = "Group" ->
         IF objData.objects = <<>> THEN [wait |-> "none", obj |-> <<>>]
         ELSE LET kids == RecreateChildren(objData.objects)
              IN IF kids.objs = <<>> THEN [wait |-> kids.wait, obj |-> <<>>]
                 ELSE [wait |-> kids.wait,
                       obj |-> << [BaseObject EXCEPT
                                    !.type = "Group",
                                    !.objects = kids.objs,
                                    !.left = objData.left,
                                    !.top = objData.top,
                                    !.angle = objData.angle,
                                    !.scaleX = objData.scaleX,
                                    !.scaleY = objData.scaleY] >>]
    [] objData.type = "Image" ->
         LET blurData  == objData.blurRegionData
             blurImage == IF blurData # <<>> /\ imageRef # <<>>
                          THEN createBlurRegion(blurData[1].originalBounds,
                                                InitialPadding,
                                                blurData[1].blockSize)
                          ELSE <<>>
         IN IF blurImage # <<>>
            THEN [wait |-> "none",
                  obj |-> << [blurImage[1] EXCEPT !.angle = objData.angle,
                                                  !.scaleX = objData.scaleX,
                                                  !.scaleY = objData.scaleY] >>]
            ELSE IF objData.src
            THEN [wait |-> "decode",
                  obj |-> << [BaseObject EXCEPT
                               !.type = "Image",
                               !.src = TRUE,
                               !.width = objData.width,
                               !.height = objData.height,
                               !.left = objData.left,
                               !.top = objData.top,
                               !.angle = objData.angle,
                               !.scaleX = objData.scaleX,
                               !.scaleY = objData.scaleY] >>]
            ELSE [wait |-> "none", obj |-> <<>>]
    [] OTHER -> [wait |-> "none", obj |-> <<>>]
RecreateChildren(data) ==
  IF data = <<>> THEN [wait |-> "none", objs |-> <<>>]
  ELSE LET h == recreateObject(Head(data))
           t == RecreateChildren(Tail(data))
       IN [wait |-> IF h.wait = "decode" \/ t.wait = "decode" THEN "decode" ELSE "none",
           objs |-> h.obj \o t.objs]

-----------------------------------------------------------------------------
(* saveToHistory(): the new log, cursor and the branch taken.                 *)

\* Faulty variant: the entries after the cursor are kept when a new one is pushed.
saveKeepingRedoTail(history, index, restoring, objs) ==
  IF restoring
  THEN [history |-> history, index |-> index, outcome |-> "suppressed"]
  ELSE LET pushed == Append(history, Snapshot(objs))
       IN IF Len(pushed) > maxHistorySize
          THEN [history |-> Tail(pushed), index |-> index, outcome |-> "evicted"]
          ELSE [history |-> pushed, index |-> index + 1,
                outcome |-> IF index < Len(history) - 1 THEN "truncated" ELSE "appended"]

saveToHistory(history, index, restoring, objs) ==
  IF restoring
  THEN [history |-> history, index |-> index, outcome |-> "suppressed"]
  ELSE LET json      == Snapshot(objs)
           truncate  == index < Len(history) - 1
           kept      == IF truncate THEN SubSeq(history, 1, index + 1) ELSE history
           pushed    == Append(kept, json)
       IN IF Len(pushed) > maxHistorySize
          THEN [history |-> Tail(pushed), index |-> index, outcome |-> "evicted"]
          ELSE [history |-> pushed, index |-> index + 1,
                outcome |-> IF truncate THEN "truncated" ELSE "appended"]

\* Faulty variant: off by one at the first entry.
canUndoAboveFirst == historyIndexRef > 0

canUndo == historyIndexRef >= 0
canRedo == historyIndexRef < Len(historyRef) - 1

-----------------------------------------------------------------------------
(* Canvas helpers (fabric.Canvas add / remove / sendObjectToBack)             *)

RemoveLive(objs) == SelectSeq(objs, LAMBDA o : ~o.live)
ClearLive(objs) == [i \in DOMAIN objs |-> [objs[i] EXCEPT !.live = FALSE]]
RemoveAt(objs, S) ==
  LET F[i \in 0..Len(objs)] ==
        IF i = 0 THEN <<>>
        ELSE IF i \in S THEN F[i - 1] ELSE Append(F[i - 1], objs[i])
  IN F[Len(objs)]
sendObjectToBack(objs, type) ==
  SelectSeq(objs, LAMBDA o : o.type = type) \o SelectSeq(objs, LAMBDA o : o.type # type)

fullCanvasWidth(pad) == ImgSize.width + pad.left + pad.right
fullCanvasHeight(pad) == ImgSize.height + pad.top + pad.bottom

\* The layout effect: background resized, image repositioned, background to back.
LayoutObjects(objs, pad) ==
  sendObjectToBack(
    [i \in DOMAIN objs |->
       IF objs[i].type = "bgRect"
       THEN [objs[i] EXCEPT !.width = fullCanvasWidth(pad), !.height = fullCanvasHeight(pad)]
       ELSE IF objs[i].type = "sourceImage"
       THEN [objs[i] EXCEPT !.left = pad.left, !.top = pad.top]
       ELSE objs[i]],
    "bgRect")

-----------------------------------------------------------------------------
(* restoreFromHistory(index)                                                  *)

\* The for-loop over objectsData from position k: objects added, and the
\* position at which it suspends in a decode (0: ran to the end).
RECURSIVE RestoreLoop(_, _, _)
RestoreLoop(objs, data, k) ==
  IF k > Len(data) THEN [objects |-> objs, at |-> 0, decoded |-> <<>>]
  ELSE LET r == recreateObject(data[k])
       IN IF r.wait = "decode" THEN [objects |-> objs, at |-> k, decoded |-> r.obj]
          ELSE RestoreLoop(objs \o r.obj, data, k + 1)

\* What the loop leaves behind, for the call restoring `index` over `data`.
AfterLoop(index, data, run, pending) ==
  /\ objects' = run.objects
  /\ IF run.at = 0
     THEN /\ historyIndexRef' = index
          /\ isRestoringRef' = FALSE
          /\ restores' = pending
     ELSE /\ historyIndexRef' = historyIndexRef
          /\ isRestoringRef' = TRUE
          /\ restores' = Append(pending, [index |-> index, data |-> data,
                                          at |-> run.at, decoded |-> run.decoded])

restoreFromHistory(index) ==
  IF index + 1 \notin DOMAIN historyRef
  THEN UNCHANGED <<objects, historyIndexRef, isRestoringRef, restores>>
  ELSE LET data == historyRef[index + 1]
       IN AfterLoop(index, data, RestoreLoop(FixedLayers(objects), data, 1), restores)

\* The decode a suspended restore waits for completes: it goes on from there.
RestoreResume(i) ==
  /\ ~upPending
  /\ i \in DOMAIN restores
  /\ LET r == restores[i]
     IN AfterLoop(r.index, r.data,
                  RestoreLoop(objects \o r.decoded, r.data, r.at + 1),
                  RemoveAt(restores, {i}))
  /\ lastCall' = "resume"
  /\ UNCHANGED <<tool, padding, imageRef, bgRectRef, historyRef, gestureVars, viewVars, lifeVars>>

-----------------------------------------------------------------------------
(* undo / redo (useImperativeHandle)                                          *)

\* Faulty variant: undoing the first entry also drops the log.
undoDroppingLog ==
  /\ ~upPending
  /\ IF historyIndexRef > 0
     THEN restoreFromHistory(historyIndexRef - 1) /\ UNCHANGED historyRef
     ELSE IF historyIndexRef = 0
     THEN /\ objects' = FixedLayers(objects)
          /\ historyIndexRef' = -1
          /\ isRestoringRef' = FALSE
          /\ historyRef' = <<>>
          /\ UNCHANGED restores
     ELSE UNCHANGED <<objects, historyIndexRef, isRestoringRef, restores, historyRef>>
  /\ lastCall' = "undo"
  /\ UNCHANGED <<tool, padding, imageRef, bgRectRef, gestureVars, viewVars, lifeVars>>

undo ==
  /\ ~upPending
  /\ IF historyIndexRef > 0
     THEN restoreFromHistory(historyIndexRef - 1)
     ELSE IF historyIndexRef = 0
     THEN /\ objects' = FixedLayers(objects)
          /\ historyIndexRef' = -1
          /\ isRestoringRef' = FALSE
          /\ UNCHANGED restores
     ELSE UNCHANGED <<objects, historyIndexRef, isRestoringRef, restores>>
  /\ lastCall' = "undo"
  /\ UNCHANGED <<tool, padding, imageRef, bgRectRef, historyRef, gestureVars, viewVars, lifeVars>>

\* Faulty variant: redo restores the entry at the cursor instead of the next one.
redoAtCursor ==
  /\ ~upPending
  /\ IF historyIndexRef < Len(historyRef) - 1
     THEN restoreFromHistory(historyIndexRef)
     ELSE UNCHANGED <<objects, historyIndexRef, isRestoringRef, restores>>
  /\ lastCall' = "redo"
  /\ UNCHANGED <<tool, padding, imageRef, bgRectRef, historyRef, gestureVars, viewVars, lifeVars>>

redo ==
  /\ ~upPending
  /\ IF historyIndexRef < Len(historyRef) - 1
     THEN restoreFromHistory(historyIndexRef + 1)
     ELSE UNCHANGED <<objects, historyIndexRef, isRestoringRef, restores>>
  /\ lastCall' = "redo"
  /\ UNCHANGED <<tool, padding, imageRef, bgRectRef, historyRef, gestureVars, viewVars, lifeVars>>

-----------------------------------------------------------------------------
(* Pointer gestures (handleMouseDown / handleMouseMove / handleMouseUp)       *)

\* Math.atan2(dy, dx) * 180 / Math.PI, for the directions the pointer
\* positions of the model span (axis-parallel and diagonal).
Atan2Deg(dy, dx) ==
  CASE dy = 0 /\ dx >= 0 -> 0
    [] dy = 0 /\ dx < 0 -> 180
    [] dx = 0 /\ dy > 0 -> 90
    [] dx = 0 /\ dy < 0 -> -90
    [] dx > 0 /\ dy = dx -> 45
    [] dx < 0 /\ dy = -dx -> 135
    [] dx < 0 /\ dy = dx -> -135
    [] dx > 0 /\ dy = -dx -> -45

\* The zero-sized live object handleMouseDown creates for a drawing tool.
NewShape(t, pointer) ==
  CASE t = "rect" ->
         [BaseObject EXCEPT !.type = "Rect", !.left = pointer.x, !.top = pointer.y,
                            !.fill = "transparent", !.live = TRUE]
    [] t = "ellipse" ->
         [BaseObject EXCEPT !.type = "Ellipse", !.left = pointer.x, !.top = pointer.y,
                            !.fill = "transparent", !.live = TRUE]
    [] t \in {"line", "arrow"} ->
         [BaseObject EXCEPT !.type = "Line", !.x1 = pointer.x, !.y1 = pointer.y,
                            !.x2 = pointer.x, !.y2 = pointer.y, !.live = TRUE]
    [] t = "blur" ->
         [BaseObject EXCEPT !.type = "Rect", !.left = pointer.x, !.top = pointer.y,
                            !.fill = "#1a1a1a", !.rx = 4, !.ry = 4, !.live = TRUE]

NewText(pointer) ==
  [BaseObject EXCEPT !.type = "IText", !.text = "Type here",
                     !.left = pointer.x, !.top = pointer.y]

\* Runs saveToHistory over the canvas `objs` and installs its result.
Save(objs) ==
  LET r == saveToHistory(historyRef, historyIndexRef, isRestoringRef, objs)
  IN /\ historyRef' = r.history
     /\ historyIndexRef' = r.index
     /\ lastCall' = r.outcome

NoSave ==
  /\ lastCall' = "none"
  /\ UNCHANGED <<historyRef, historyIndexRef>>

\* A blur drag given up without an object: the rectangle is too small, or
\* createBlurRegion gave null (or there is no image).
Discarded(why) ==
  /\ lastCall' = why
  /\ UNCHANGED <<historyRef, historyIndexRef>>

handleMouseDown(pointer) ==
  /\ ~pointerDown
  /\ ~upPending
  /\ pointerDown' = TRUE
  /\ IF tool = "select"
     THEN /\ NoSave
          /\ UNCHANGED <<objects, isDrawing, startPointRef, activeShapeRef>>
     ELSE /\ startPointRef' = <<pointer>>
          /\ isDrawing' = TRUE
          /\ IF tool = "text"
             THEN /\ objects' = Append(objects, NewText(pointer))
                  /\ Save(objects')
                  /\ UNCHANGED activeShapeRef
             ELSE /\ objects' = Append(objects, NewShape(tool, pointer))
                  /\ activeShapeRef' = <<NewShape(tool, pointer)>>
                  /\ NoSave
  /\ UNCHANGED <<tool, padding, imageRef, bgRectRef, upPending, isRestoringRef, restores, viewVars, lifeVars>>

\* A faulty variant: the corner of a rectangle or ellipse stays at the start
\* point, whichever way the pointer went.
MovedShapeFromStart(shape, start, pointer) ==
  LET width  == pointer.x - start.x
      height == pointer.y - start.y
  IN CASE shape.type = "Rect" ->
            [shape EXCEPT !.left = start.x, !.top = start.y,
                          !.width = Abs(width), !.height = Abs(height)]
       [] shape.type = "Ellipse" ->
            [shape EXCEPT !.left = start.x, !.top = start.y,
                          !.rx = Abs(width) \div 2, !.ry = Abs(height) \div 2]
       [] shape.type = "Line" ->
            [shape EXCEPT !.x2 = pointer.x, !.y2 = pointer.y]
       [] OTHER -> shape

\* shape.set(...) of handleMouseMove, by the class of the live object.
MovedShape(shape, start, pointer) ==
  LET width  == pointer.x - start.x
      height == pointer.y - start.y
  IN CASE shape.type = "Rect" ->
            [shape EXCEPT !.left = IF width > 0 THEN start.x ELSE pointer.x,
                          !.top = IF height > 0 THEN start.y ELSE pointer.y,
                          !.width = Abs(width), !.height = Abs(height)]
       [] shape.type = "Ellipse" ->
            [shape EXCEPT !.left = IF width > 0 THEN start.x ELSE pointer.x,
                          !.top = IF height > 0 THEN start.y ELSE pointer.y,
                          !.rx = Abs(width) \div 2, !.ry = Abs(height) \div 2]
       [] shape.type = "Line" ->
            [shape EXCEPT !.x2 = pointer.x, !.y2 = pointer.y]
       [] OTHER -> shape

handleMouseMove(pointer) ==
  /\ ~upPending
  /\ isDrawing /\ startPointRef # <<>> /\ activeShapeRef # <<>>
  /\ LET moved == MovedShape(activeShapeRef[1], startPointRef[1], pointer)
     IN /\ activeShapeRef' = <<moved>>
        /\ objects' = [i \in DOMAIN objects |->
                         IF objects[i].live THEN moved ELSE objects[i]]
  /\ NoSave
  /\ UNCHANGED <<tool, padding, imageRef, bgRectRef, isDrawing, startPointRef,
                 pointerDown, upPending, isRestoringRef, restores, viewVars, lifeVars>>

\* A faulty variant: the head keeps the angle of the line.
ArrowGroupUnturned(line) ==
  LET x1 == line.x1
      y1 == line.y1
      x2 == line.x2
      y2 == line.y2
      angle == Atan2Deg(y2 - y1, x2 - x1)
      centerX == (x1 + x2) \div 2
      centerY == (y1 + y2) \div 2
      arrowLine == [BaseObject EXCEPT !.type = "Line",
                      !.x1 = x1 - centerX, !.y1 = y1 - centerY,
                      !.x2 = x2 - centerX, !.y2 = y2 - centerY]
      arrowHead == [BaseObject EXCEPT !.type = "Triangle",
                      !.left = x2 - centerX, !.top = y2 - centerY,
                      !.width = headLength, !.height = headLength,
                      !.angle = angle]
  IN [BaseObject EXCEPT !.type = "Group", !.objects = <<arrowLine, arrowHead>>,
                        !.left = centerX, !.top = centerY]

\* The arrow group handleMouseUp builds from the temporary line.
ArrowGroup(line) ==
  LET x1 == line.x1
      y1 == line.y1
      x2 == line.x2
      y2 == line.y2
      angle == Atan2Deg(y2 - y1, x2 - x1)
      centerX == (x1 + x2) \div 2
      centerY == (y1 + y2) \div 2
      arrowLine == [BaseObject EXCEPT !.type = "Line",
                      !.x1 = x1 - centerX, !.y1 = y1 - centerY,
                      !.x2 = x2 - centerX, !.y2 = y2 - centerY]
      arrowHead == [BaseObject EXCEPT !.type = "Triangle",
                      !.left = x2 - centerX, !.top = y2 - centerY,
                      !.width = headLength, !.height = headLength,
                      !.angle = angle + 90]
  IN [BaseObject EXCEPT !.type = "Group", !.objects = <<arrowLine, arrowHead>>,
                        !.left = centerX, !.top = centerY]

\* A faulty variant: the early return of a blur drag that is too small keeps
\* the reference to the rectangle it removed.
GestureResetButDiscard ==
  /\ isDrawing' = FALSE
  /\ startPointRef' = <<>>
  /\ activeShapeRef' = IF /\ tool = "blur" /\ activeShapeRef # <<>>
                          /\ activeShapeRef[1].type = "Rect"
                          /\ activeShapeRef[1].width < minBlurSize
                       THEN activeShapeRef
                       ELSE <<>>

\* What every path through handleMouseUp does to the gesture state:
\* setIsDrawing(false), startPointRef.current = null, and
\* activeShapeRef.current = null before each return.
GestureReset ==
  /\ isDrawing' = FALSE
  /\ startPointRef' = <<>>
  /\ activeShapeRef' = <<>>

handleMouseUp ==
  /\ pointerDown
  /\ LET wasDrawing == isDrawing /\ activeShapeRef # <<>>
     IN /\ GestureReset
        /\ IF tool = "arrow" /\ activeShapeRef # <<>> /\ activeShapeRef[1].type = "Line"
           THEN /\ objects' = Append(RemoveLive(objects), ArrowGroup(activeShapeRef[1]))
                /\ IF wasDrawing THEN Save(objects') ELSE NoSave
           ELSE IF tool = "blur" /\ activeShapeRef # <<>> /\ activeShapeRef[1].type = "Rect"
           THEN LET rect == activeShapeRef[1]
                    bounds == [left |-> rect.left, top |-> rect.top,
                               width |-> rect.width, height |-> rect.height]
                    blurImage == IF imageRef # <<>>
                                 THEN createBlurRegion(bounds, padding, defaultBlockSize)
                                 ELSE <<>>
                IN IF rect.width < minBlurSize \/ rect.height < minBlurSize
                   THEN /\ objects' = RemoveLive(objects)
                        /\ Discarded("tooSmall")
                   ELSE IF blurImage # <<>>
                   THEN /\ objects' = Append(RemoveLive(objects), blurImage[1])
                        /\ Save(objects')
                   ELSE /\ objects' = RemoveLive(objects)
                        /\ Discarded("noRegion")
           ELSE /\ objects' = ClearLive(objects)
                /\ IF wasDrawing THEN Save(objects') ELSE NoSave
  /\ pointerDown' = FALSE
  /\ upPending' = FALSE
  /\ UNCHANGED <<tool, padding, imageRef, bgRectRef, isRestoringRef, restores, viewVars, lifeVars>>

\* The user's transform of an object, as fabric applies it before object:modified.
Transformed(o, xf) ==
  CASE xf.kind = "move" -> [o EXCEPT !.left = o.left + xf.by, !.top = o.top + xf.by]
    [] xf.kind = "rotate" -> [o EXCEPT !.angle = (o.angle + xf.by) % 360]
    [] xf.kind = "scale" -> [o EXCEPT !.scaleX = o.scaleX * xf.by, !.scaleY = o.scaleY * xf.by]

\* object:modified on the object at position i, fired by fabric on mouse up,
\* before mouse:up, when a drag moved, scaled or rotated a selectable object.
objectModified(i, xf) ==
  /\ pointerDown
  /\ ~upPending
  /\ i \in DOMAIN objects
  /\ IsAnnotation(objects[i])
  /\ objects[i].selectable /\ objects[i].evented /\ ~objects[i].live
  /\ objects' = [objects EXCEPT ![i] = Transformed(objects[i], xf)]
  /\ IF ~isRestoringRef
     THEN Save(objects')
     ELSE /\ lastCall' = "suppressed"
          /\ UNCHANGED <<historyRef, historyIndexRef>>
  /\ upPending' = TRUE
  /\ UNCHANGED <<tool, padding, imageRef, bgRectRef, isDrawing, startPointRef,
                 activeShapeRef, pointerDown, isRestoringRef, restores, viewVars, lifeVars>>

\* The drags that start with no drawing gesture under way.
handleObjectModified(i, xf) == ~isDrawing /\ objectModified(i, xf)

-----------------------------------------------------------------------------
(* Delete key handler: S is the active selection (positions on the canvas).   *)

Selectable(objs) ==
  {i \in DOMAIN objs : objs[i].selectable /\ objs[i].evented /\ ~objs[i].live}

handleKeyDown(S) ==
  /\ ~upPending
  /\ S \subseteq Selectable(objects)
  /\ IF tool = "select"
     THEN LET removed == {i \in S : IsAnnotation(objects[i])}
          IN /\ objects' = RemoveAt(objects, removed)
             /\ IF removed # {} THEN Save(objects') ELSE NoSave
     ELSE /\ UNCHANGED objects
          /\ NoSave
  /\ UNCHANGED <<tool, padding, imageRef, bgRectRef, gestureVars, isRestoringRef, restores, viewVars, lifeVars>>

-----------------------------------------------------------------------------
(* parseGradient(cssGradient, width, height).  A descriptor is a sequence of   *)
(* tokens: "linear-gradient(", a run of digits, "deg", ",", " " (a run of      *)
(* white space), "%", ")", or a word with none of these characters in it.     *)

ParseInt == [t \in {"0", "45", "50", "90", "100", "135"} |->
               CASE t = "0" -> 0 [] t = "45" -> 45 [] t = "50" -> 50
                 [] t = "90" -> 90 [] t = "100" -> 100 [] t = "135" -> 135]

IsDigits(t) == t \in DOMAIN ParseInt      \* \d+
IsSpace(t) == t = " "                     \* \s+
NoComma(t) == t # ","                     \* [^,]+
NoParen(t) == t # ")"                     \* [^)]+

\* String.prototype.trim on a captured group.
RECURSIVE TrimLeft(_)
TrimLeft(s) == IF s # <<>> /\ IsSpace(Head(s)) THEN TrimLeft(Tail(s)) ELSE s
RECURSIVE TrimRight(_)
TrimRight(s) ==
  IF s # <<>> /\ IsSpace(s[Len(s)]) THEN TrimRight(SubSeq(s, 1, Len(s) - 1)) ELSE s
Trim(s) == TrimLeft(TrimRight(s))

\* The matches of
\*   /linear-gradient\((\d+)deg,\s*([^,]+)\s+(\d+)%,\s*([^)]+)\s+(\d+)%\)/
\* in d: where the match starts and where the groups 2 and 4 start and end.
GradientMatches(d) ==
  LET n == Len(d)
      At(i, t) == i \in 1..n /\ d[i] = t
      Digits(i) == i \in 1..n /\ IsDigits(d[i])
      Spaces(i) == IF At(i, " ") THEN 1 ELSE 0     \* \s* : 0 or 1 token
      \* linear-gradient\((\d+)deg,
      Starts == { p \in 1..n : /\ At(p, "linear-gradient(") /\ Digits(p + 1)
                               /\ At(p + 2, "deg") /\ At(p + 3, ",") }
      \* ([^,]+)\s+(\d+)%,
      Ends2(from2) == { to2 \in from2..n :
                          /\ \A i \in from2..to2 : NoComma(d[i])
                          /\ At(to2 + 1, " ") /\ Digits(to2 + 2)
                          /\ At(to2 + 3, "%") /\ At(to2 + 4, ",") }
      \* ([^)]+)\s+(\d+)%\)
      Ends4(from4) == { to4 \in from4..n :
                          /\ \A i \in from4..to4 : NoParen(d[i])
                          /\ At(to4 + 1, " ") /\ Digits(to4 + 2)
                          /\ At(to4 + 3, "%") /\ At(to4 + 4, ")") }
      From2(p) == p + 4 + Spaces(p + 4)
      From4(to2) == to2 + 5 + Spaces(to2 + 5)
  IN UNION { UNION { { [p |-> p, from2 |-> From2(p), to2 |-> to2,
                        from4 |-> From4(to2), to4 |-> to4] :
                       to4 \in Ends4(From4(to2)) } :
                     to2 \in Ends2(From2(p)) } :
             p \in Starts }

\* The match String.prototype.match returns: the leftmost one, its groups
\* as long as they can be.
FirstMatch(ms) ==
  CHOOSE m \in ms :
    \A o \in ms :
      \/ m.p < o.p
      \/ m.p = o.p /\ m.to2 > o.to2
      \/ m.p = o.p /\ m.to2 = o.to2 /\ m.to4 >= o.to4

\* A faulty variant: the cosine of the angle itself.
CosUnturned(angle) ==
  CASE angle = 0 -> 1000 [] angle = 45 -> 707 [] angle = 90 -> 0 [] angle = 135 -> -707

\* Math.cos / Math.sin of (angle - 90) degrees, in thousandths, for the
\* angles of the descriptors of the model.
CosK(angle) ==
  CASE angle = 0 -> 0 [] angle = 45 -> 707 [] angle = 90 -> 1000 [] angle = 135 -> 707
SinK(angle) ==
  CASE angle = 0 -> -1000 [] angle = 45 -> -707 [] angle = 90 -> 0 [] angle = 135 -> 707

\* <<>> for null, else the gradient; coordinates in thousandths of a pixel.
parseGradient(cssGradient, width, height) ==
  LET ms == GradientMatches(cssGradient)
  IN IF ms = {} THEN <<>>
     ELSE LET match == FirstMatch(ms)
              angle == ParseInt[cssGradient[match.p + 1]]
              color1 == Trim(SubSeq(cssGradient, match.from2, match.to2))
              color2 == Trim(SubSeq(cssGradient, match.from4, match.to4))
              x1 == 500 - CosK(angle) \div 2
              y1 == 500 - SinK(angle) \div 2
              x2 == 500 + CosK(angle) \div 2
              y2 == 500 + SinK(angle) \div 2
          IN << [type |-> "linear",
                 coords |-> [x1 |-> x1 * width, y1 |-> y1 * height,
                             x2 |-> x2 * width, y2 |-> y2 * height],
                 colorStops |-> << [offset |-> 0, color |-> color1],
                                   [offset |-> 1, color |-> color2] >>] >>

\* backgroundColor.startsWith('linear-gradient')
StartsWithLinearGradient(d) == d # <<>> /\ d[1] = "linear-gradient("

\* fill: bgFill || backgroundColor, as the gradient or the descriptor.
BackgroundFill(descriptor, width, height) ==
  LET isGradient == StartsWithLinearGradient(descriptor)
      resolved == IF isGradient THEN parseGradient(descriptor, width, height) ELSE <<>>
  IN IF resolved # <<>>
     THEN [gradient |-> resolved, flat |-> <<>>]
     ELSE [gradient |-> <<>>, flat |-> <<descriptor>>]

\* Descriptors: linear-gradient(<direction>, <stop>, <stop>, ...).
Stop(color, at) == [color |-> color, at |-> at]
RECURSIVE StopTokens(_)
StopTokens(stops) ==
  IF stops = <<>> THEN <<>>
  ELSE <<",", " ">> \o Head(stops).color \o <<" ", Head(stops).at, "%">>
       \o StopTokens(Tail(stops))
LinearGradient(direction, stops) ==
  <<"linear-gradient(">> \o direction \o StopTokens(stops) \o <<")">>
Deg(a) == <<a, "deg">>

\* The background of the first EditorApp ('Purple Blue'), of the second.
PurpleBlue == LinearGradient(Deg("135"), <<Stop(<<"#667eea">>, "0"), Stop(<<"#764ba2">>, "100")>>)
White == <<"#ffffff">>

\* The descriptors handed to the canvas: presets, the inputs of the tests,
\* and gradients that are not of the form "angle, stop at 0%, stop at 100%".
Descriptors ==
  { PurpleBlue, White,
    <<"transparent">>, <<"not-a-gradient">>, <<>>,
    LinearGradient(Deg("0"), <<Stop(<<"#000000">>, "0"), Stop(<<"#ffffff">>, "100")>>),
    LinearGradient(Deg("90"), <<Stop(<<"#000000">>, "0"), Stop(<<"#ffffff">>, "100")>>),
    LinearGradient(Deg("45"), <<Stop(<<"#ff0000">>, "0"), Stop(<<"#0000ff">>, "100")>>),
    LinearGradient(<<"to", " ", "right">>,
                   <<Stop(<<"#667eea">>, "0"), Stop(<<"#764ba2">>, "100")>>),
    LinearGradient(Deg("135"), <<Stop(<<"#667eea">>, "0")>>),
    LinearGradient(Deg("135"),
                   <<Stop(<<"rgb(", "0", ",", "0", ",", "0", ")">>, "0"),
                     Stop(<<"rgb(", "0", ",", "0", ",", "100", ")">>, "100")>>),
    LinearGradient(Deg("135"),
                   <<Stop(<<"#667eea">>, "0"), Stop(<<"#aaaaaa">>, "50"),
                     Stop(<<"#764ba2">>, "100")>>) }

-----------------------------------------------------------------------------
(* Zoom, display surface and background fill.  Zoom factors are in            *)
(* thousandths; the display surface is in thousandths of a pixel.             *)

zoomOne == 1000        \* canvas.setZoom(1); a new fabric.Canvas has zoom 1
minZoom == 100         \* Math.max(0.1, ...) of the first handleZoomChange
minZoomSecond == 250   \* Math.max(0.25, ...) of the second handleZoomChange
maxZoom == 2000        \* Math.min(2, zoom) of both
fitMargin == 64        \* containerSize.width - 64

NoSize == [width |-> 0, height |-> 0]

\* canvasSize (React state): set with the image, then by the layout effect.
canvasSizeOf(img, pad) ==
  IF img = <<>> THEN NoSize
  ELSE [width |-> fullCanvasWidth(pad), height |-> fullCanvasHeight(pad)]

\* { width: size.width * z, height: size.height * z }
Scaled(size, z) == [width |-> size.width * z, height |-> size.height * z]

\* Math.min(scaleX, scaleY, 1)
fitZoomOf(container, size) ==
  LET availableWidth == container.width - fitMargin
      availableHeight == container.height - fitMargin
      scaleX == (availableWidth * zoomOne) \div size.width
      scaleY == (availableHeight * zoomOne) \div size.height
  IN Min(Min(scaleX, scaleY), zoomOne)

\* What the effects below read and write.
CurrentView ==
  [zoom |-> zoom, canvasZoom |-> canvasZoom, canvasDims |-> canvasDims,
   calculated |-> hasCalculatedInitialZoomRef]

\* A faulty variant of the initial zoom effect without its
\* hasCalculatedInitialZoomRef guard.
initialZoomUnguarded(v, size, container, app) ==
  IF size.width = 0 \/ size.height = 0 THEN v
  ELSE IF container.width = 0 \/ container.height = 0 THEN v
  ELSE LET fitZoom == fitZoomOf(container, size)
       IN [zoom |-> IF app = "first" THEN fitZoom ELSE v.zoom,
           canvasZoom |-> fitZoom,
           canvasDims |-> Scaled(size, fitZoom),
           calculated |-> TRUE]

\* The initial zoom effect; onZoomCalculated is handed down by the first
\* EditorApp only.
initialZoomEffect(v, size, container, app) ==
  IF v.calculated THEN v
  ELSE IF size.width = 0 \/ size.height = 0 THEN v
  ELSE IF container.width = 0 \/ container.height = 0 THEN v
  ELSE LET fitZoom == fitZoomOf(container, size)
       IN [zoom |-> IF app = "first" THEN fitZoom ELSE v.zoom,
           canvasZoom |-> fitZoom,
           canvasDims |-> Scaled(size, fitZoom),
           calculated |-> TRUE]

\* The layout effect's canvas.setDimensions at the current zoom.
layoutEffectDims(v, size) == [v EXCEPT !.canvasDims = Scaled(size, v.canvasZoom)]

\* The zoom effect, run in a render where editorState.zoom is z.
zoomEffect(v, z, size) ==
  IF size.width = 0 \/ z <= 0 THEN v
  ELSE [v EXCEPT !.canvasZoom = z, !.canvasDims = Scaled(size, z)]

\* The renders after the image was added.  mountSize is the size the .then
\* computes from the editorState of its closure and hands to setDimensions
\* (of its own canvas) and setCanvasSize; size is the one of the layout
\* effect.  The initial zoom effect, the layout effect and the zoom effect run
\* in the order of their declaration, then again in the render that
\* setCanvasSize and onZoomCalculated ask for.
ViewAfterLoad(mountSize, size, own) ==
  LET v0 == IF own THEN [CurrentView EXCEPT !.canvasDims = Scaled(mountSize, canvasZoom)]
            ELSE CurrentView
      v1 == initialZoomEffect(v0, mountSize, containerSize, editorApp)
      v2 == layoutEffectDims(v1, size)
      v3 == zoomEffect(v2, zoom, mountSize)
      v4 == initialZoomEffect(v3, size, containerSize, editorApp)
  IN zoomEffect(v4, v4.zoom, size)

\* The layout effect, then the render its setCanvasSize asks for.
ViewAfterLayout(size) ==
  IF size.width = 0 THEN CurrentView
  ELSE LET v1 == layoutEffectDims(CurrentView, size)
           v2 == initialZoomEffect(v1, size, containerSize, editorApp)
           v3 == zoomEffect(v2, zoom, size)
       IN zoomEffect(v3, v2.zoom, size)

\* A new containerSize: the initial zoom effect, and the zoom effect when
\* onZoomCalculated changed editorState.zoom.
ViewAfterContainer(size, container) ==
  LET v1 == initialZoomEffect(CurrentView, size, container, editorApp)
  IN IF v1.zoom # zoom THEN zoomEffect(v1, v1.zoom, size) ELSE v1

Install(v) ==
  /\ zoom' = v.zoom
  /\ canvasZoom' = v.canvasZoom
  /\ canvasDims' = v.canvasDims
  /\ hasCalculatedInitialZoomRef' = v.calculated

\* bgRect.set({ fill: bgFill || backgroundColor }) of the layout effect.
layoutFill(img, descriptor, size) ==
  IF img = <<>> THEN bgFill
  ELSE <<BackgroundFill(descriptor, size.width, size.height)>>

\* A faulty variant: a change of the view records the scene.
OnlyViewSaving == Save(objects) /\ UNCHANGED <<sceneVars, gestureVars, isRestoringRef, restores, lifeVars>>

OnlyView == NoSave /\ UNCHANGED <<sceneVars, gestureVars, isRestoringRef, restores, lifeVars>>

\* The ResizeObserver of EditorApp reports the size of the container.
ContainerResize(size) ==
  /\ size # containerSize
  /\ containerSize' = size
  /\ Install(ViewAfterContainer(canvasSizeOf(imageRef, padding), size))
  /\ OnlyView
  /\ UNCHANGED <<editorApp, borderRadius, backgroundColor, clipPath, bgFill, exported>>

\* handleZoomChange of the first EditorApp, and the zoom effect.
handleZoomChange(z) ==
  /\ editorApp = "first"
  /\ LET clamped == Max(minZoom, Min(maxZoom, z))
     IN Install(zoomEffect([CurrentView EXCEPT !.zoom = clamped], clamped,
                           canvasSizeOf(imageRef, padding)))
  /\ OnlyView
  /\ UNCHANGED <<editorApp, borderRadius, backgroundColor, containerSize,
                 clipPath, bgFill, exported>>

\* handleZoomChange of the second EditorApp, and the zoom effect.
handleZoomChangeSecond(z) ==
  /\ editorApp = "second"
  /\ LET clamped == Max(minZoomSecond, Min(maxZoom, z))
     IN Install(zoomEffect([CurrentView EXCEPT !.zoom = clamped], clamped,
                           canvasSizeOf(imageRef, padding)))
  /\ OnlyView
  /\ UNCHANGED <<editorApp, borderRadius, backgroundColor, containerSize,
                 clipPath, bgFill, exported>>

\* handleBackgroundColorChange and the layout effect.
handleBackgroundColorChange(descriptor) ==
  /\ descriptor # backgroundColor
  /\ backgroundColor' = descriptor
  /\ LET size == canvasSizeOf(imageRef, padding)
     IN /\ Install(ViewAfterLayout(size))
        /\ bgFill' = layoutFill(imageRef, descriptor, size)
  /\ objects' = IF imageRef # <<>> /\ bgRectRef # <<>>
                THEN LayoutObjects(objects, padding)
                ELSE objects
  /\ NoSave
  /\ UNCHANGED <<tool, padding, imageRef, bgRectRef, gestureVars, isRestoringRef, restores>>
  /\ UNCHANGED <<editorApp, borderRadius, containerSize, clipPath, exported, lifeVars>>

\* handleBorderRadiusChange and the layout effect.
handleBorderRadiusChange(r) ==
  /\ r # borderRadius
  /\ borderRadius' = r
  /\ LET size == canvasSizeOf(imageRef, padding)
     IN /\ Install(ViewAfterLayout(size))
        /\ bgFill' = layoutFill(imageRef, backgroundColor, size)
  /\ objects' = IF imageRef # <<>> /\ bgRectRef # <<>>
                THEN LayoutObjects(objects, padding)
                ELSE objects
  /\ NoSave
  /\ UNCHANGED <<tool, padding, imageRef, bgRectRef, gestureVars, isRestoringRef, restores>>
  /\ UNCHANGED <<editorApp, backgroundColor, containerSize, clipPath, exported, lifeVars>>

\* The canvas after toDataURL: clip, zoom and surface put back.
RestoreAfterExport(during, currentZoom, previousClipPath, size, radius) ==
  [zoom |-> currentZoom,
   dims |-> Scaled(size, currentZoom),
   clip |-> IF radius > 0 THEN previousClipPath ELSE during.clip]

\* exportToDataURL of the imperative handle.
exportToDataURL ==
  LET size == canvasSizeOf(imageRef, padding)
  IN IF size.width = 0
     THEN /\ exported' = <<[dataURL |-> FALSE, zoom |-> 0, dims |-> NoSize, clip |-> <<>>]>>
          /\ UNCHANGED <<zoom, hasCalculatedInitialZoomRef, canvasZoom, canvasDims,
                         clipPath, bgFill>>
          /\ UNCHANGED <<appVars, sceneVars, gestureVars, historyVars, lifeVars>>
     ELSE LET currentBorderRadius == borderRadius
              currentZoom == canvasZoom
              previousClipPath == clipPath
              during == [zoom |-> zoomOne,
                         dims |-> Scaled(size, zoomOne),
                         clip |-> IF currentBorderRadius > 0
                                  THEN <<[width |-> size.width, height |-> size.height,
                                          rx |-> currentBorderRadius]>>
                                  ELSE clipPath]
              after == RestoreAfterExport(during, currentZoom, previousClipPath, size,
                                          currentBorderRadius)
          IN /\ exported' = <<[dataURL |-> TRUE, zoom |-> during.zoom,
                               dims |-> during.dims, clip |-> during.clip]>>
             /\ canvasZoom' = after.zoom
             /\ canvasDims' = after.dims
             /\ clipPath' = after.clip
             /\ UNCHANGED <<hasCalculatedInitialZoomRef, bgFill>>
             /\ UNCHANGED <<appVars, sceneVars, gestureVars, historyVars, lifeVars>>

-----------------------------------------------------------------------------
(* Effects of the properties handed down by EditorApp                         *)

\* A decode of the source image completes (the .then of the init effect),
\* followed by the layout effect that setOriginalImageSize triggers.  The
\* callback adds the layers to the canvas of its closure.
ImageLoaded ==
  /\ ~upPending
  /\ \E d \in decodes :
       /\ decodes' = decodes \ {d}
       /\ IF ~isMountedRef \/ fabricRef = 0
          THEN UNCHANGED <<imageRef, bgRectRef, objects, layersOf, staleWrites,
                           zoom, hasCalculatedInitialZoomRef, canvasZoom, canvasDims, bgFill>>
          ELSE /\ imageRef' = <<"sourceImage">>
               /\ bgRectRef' = <<"bgRect">>
               /\ layersOf' = d.canvas
               /\ IF d.canvas = fabricRef
                  THEN /\ objects' = LayoutObjects(
                                       sendObjectToBack(Append(Append(objects, BgRect),
                                                               SourceImage), "bgRect"),
                                       padding)
                       /\ UNCHANGED staleWrites
                  ELSE /\ staleWrites' = staleWrites \cup {d.canvas}
                       /\ UNCHANGED objects
               /\ LET size == canvasSizeOf(<<"sourceImage">>, padding)
                      mountSize == canvasSizeOf(<<"sourceImage">>, d.padding)
                  IN /\ Install(ViewAfterLoad(mountSize, size, d.canvas = fabricRef))
                     /\ bgFill' = layoutFill(<<"sourceImage">>, backgroundColor, size)
  /\ NoSave
  /\ UNCHANGED <<tool, padding, gestureVars, isRestoringRef, restores>>
  /\ UNCHANGED <<editorApp, borderRadius, backgroundColor, containerSize, clipPath, exported>>
  /\ UNCHANGED <<fabricRef, isMountedRef, canvases>>

\* The init effect of a mount: a new canvas, and the decode of the image
\* started with the editorState of this render in its closure.
InitEffect ==
  /\ isMountedRef' = TRUE
  /\ canvases' = canvases + 1
  /\ fabricRef' = canvases + 1
  /\ decodes' = decodes \cup {[canvas |-> canvases + 1, padding |-> padding]}

\* The cleanup of the init effect: the canvas disposed, the references and
\* hasCalculatedInitialZoomRef reset, the sizes set to 0.
InitEffectCleanup ==
  /\ imageRef' = <<>>
  /\ bgRectRef' = <<>>
  /\ layersOf' = 0
  /\ objects' = <<>>
  /\ hasCalculatedInitialZoomRef' = FALSE
  /\ canvasDims' = NoSize
  /\ clipPath' = <<>>
  /\ bgFill' = <<>>

\* imageData changes (a new 'editor-data' event), or StrictMode runs the
\* effects of the mount a second time: cleanup, then the init effect again,
\* between gestures and restores.
Remount ==
  /\ isMountedRef
  /\ ~pointerDown /\ ~upPending /\ restores = <<>>
  /\ InitEffectCleanup
  /\ InitEffect
  /\ canvasZoom' = zoomOne
  /\ NoSave
  /\ UNCHANGED <<tool, padding, gestureVars, isRestoringRef, restores>>
  /\ UNCHANGED <<appVars, exported, staleWrites>>

\* The component is unmounted: the cleanup alone.
Unmount ==
  /\ isMountedRef
  /\ ~pointerDown /\ ~upPending /\ restores = <<>>
  /\ InitEffectCleanup
  /\ isMountedRef' = FALSE
  /\ fabricRef' = 0
  /\ NoSave
  /\ UNCHANGED <<tool, padding, gestureVars, isRestoringRef, restores>>
  /\ UNCHANGED <<appVars, canvasZoom, exported, canvases, decodes, staleWrites>>

\* handleToolChange and the tool effect it triggers.
ToolChange(t) ==
  /\ ~upPending
  /\ t # tool
  /\ tool' = t
  /\ LET flag(o) == IF IsAnnotation(o)
                    THEN [o EXCEPT !.selectable = (t = "select"), !.evented = (t = "select")]
                    ELSE o
     IN /\ objects' = [i \in DOMAIN objects |-> flag(objects[i])]
        /\ activeShapeRef' =
             IF activeShapeRef # <<>> /\ \E i \in DOMAIN objects : objects[i].live
             THEN <<flag(activeShapeRef[1])>>
             ELSE activeShapeRef
  /\ NoSave
  /\ UNCHANGED <<padding, imageRef, bgRectRef, isDrawing, startPointRef, pointerDown,
                 upPending, isRestoringRef, restores, viewVars, lifeVars>>

\* handlePaddingChange and the layout effect it triggers.
PaddingChange(pad) ==
  /\ ~upPending
  /\ pad # padding
  /\ padding' = pad
  /\ objects' = IF imageRef # <<>> /\ bgRectRef # <<>>
                THEN LayoutObjects(objects, pad)
                ELSE objects
  /\ LET size == canvasSizeOf(imageRef, pad)
     IN /\ Install(ViewAfterLayout(size))
        /\ bgFill' = layoutFill(imageRef, backgroundColor, size)
  /\ NoSave
  /\ UNCHANGED <<tool, imageRef, bgRectRef, gestureVars, isRestoringRef, restores>>
  /\ UNCHANGED <<editorApp, borderRadius, backgroundColor, containerSize, clipPath, exported,
                 lifeVars>>

-----------------------------------------------------------------------------
(* Specifications                                                             *)

\* useState of the first EditorApp, of the second.
EditorAppInit(app) ==
  /\ editorApp = app
  /\ zoom = IF app = "first" THEN 0 ELSE -zoomOne
  /\ borderRadius = 12
  /\ backgroundColor = IF app = "first" THEN PurpleBlue ELSE White
  /\ containerSize = NoSize

InitWith(app) ==
  /\ EditorAppInit(app)
  /\ hasCalculatedInitialZoomRef = FALSE
  /\ canvasZoom = zoomOne
  /\ canvasDims = NoSize
  /\ clipPath = <<>>
  /\ bgFill = <<>>
  /\ exported = <<>>
  /\ tool = "select"
  /\ padding = InitialPadding
  /\ objects = <<>>
  /\ imageRef = <<>>
  /\ bgRectRef = <<>>
  /\ isDrawing = FALSE
  /\ startPointRef = <<>>
  /\ activeShapeRef = <<>>
  /\ pointerDown = FALSE
  /\ upPending = FALSE
  /\ historyRef = <<>>
  /\ historyIndexRef = -1
  /\ isRestoringRef = FALSE
  /\ restores = <<>>
  /\ lastCall = "none"
  /\ actionCount = 0
  /\ undoCount = 0
  /\ redoCount = 0
  /\ blurCall = <<>>
  /\ gradientCall = <<>>
  /\ fabricRef = 1
  /\ isMountedRef = TRUE
  /\ canvases = 1
  /\ decodes = {[canvas |-> 1, padding |-> InitialPadding]}
  /\ layersOf = 0
  /\ staleWrites = {}

Init == InitWith("first")

AnnotationCount(objs) ==
  Cardinality({i \in DOMAIN objs : objs[i].type \notin {"bgRect", "sourceImage"}})

Positions == 1..(MaxObjs + 2)

\* Spec: every interleaving of the handlers, within the bounds, with the blur
\* tool and the drag FarStart -> FarEnd as the drawing gesture.
Bounded ==
  /\ Len(historyRef') <= MaxHist
  /\ AnnotationCount(objects') <= MaxObjs
  /\ Len(restores') <= MaxPending
  /\ UNCHANGED <<countVars, callVars>>

Next ==
  \/ ImageLoaded /\ Bounded
  \/ \E t \in {"select", "blur"} : ~pointerDown /\ ToolChange(t) /\ Bounded
  \/ \E pad \in Paddings : PaddingChange(pad) /\ Bounded
  \/ imageRef # <<>> /\ handleMouseDown(FarStart) /\ Bounded
  \/ handleMouseMove(FarEnd) /\ Bounded
  \/ handleMouseUp /\ Bounded
  \/ \E i \in Positions :
       /\ i \in DOMAIN objects
       /\ objects[i].left + MoveFar.by <= MaxCoord
       /\ handleObjectModified(i, MoveFar)
       /\ Bounded
  \/ \E S \in SUBSET Positions : handleKeyDown(S) /\ Bounded
  \/ undo /\ Bounded
  \/ redo /\ Bounded
  \/ \E i \in 1..MaxPending : RestoreResume(i) /\ Bounded

Spec == Init /\ [][Next]_vars

-----------------------------------------------------------------------------
(* Scenarios: the handlers under the user's protocol of a test run             *)

SaveCalls == {"appended", "truncated", "evicted", "suppressed"}

\* The scenario counters: a completed mutation is a handler that got as far
\* as saveToHistory; du / dr count this step as an undo() / a redo().
Count(du, dr) ==
  /\ actionCount' = IF lastCall' \in SaveCalls THEN actionCount + 1 ELSE actionCount
  /\ undoCount' = undoCount + du
  /\ redoCount' = redoCount + dr
  /\ UNCHANGED callVars

\* SpecSeq: one action after the other and then undos and redos, each called
\* when the restore before it has completed.  The first action is drawn with
\* any tool, padding and drag; the actions after it move what was drawn.
\* The undos start after 1, 2 or 60 actions.
UndoPoints == {1, 2, 60}

SeqActing ==
  /\ undoCount = 0 /\ redoCount = 0
  /\ restores = <<>>
  /\ actionCount < MaxActions

NextSeq ==
  \/ ImageLoaded /\ Count(0, 0)
  \/ \E t \in Tools :
       /\ ~pointerDown /\ undoCount = 0 /\ redoCount = 0
       /\ actionCount = 0 \/ t = "select"
       /\ ToolChange(t) /\ Count(0, 0)
  \/ \E pad \in Paddings :
       ~pointerDown /\ actionCount = 0 /\ PaddingChange(pad) /\ Count(0, 0)
  \/ \E pt \in {NearStart, FarStart} :
       /\ SeqActing
       /\ actionCount = 0 \/ tool = "select"
       /\ handleMouseDown(pt) /\ Count(0, 0)
  \/ \E pt \in {NearEnd, FarEnd, ThinEnd, FlatEnd, MinEnd} :
       /\ pt \in {NearEnd, FarEnd} \/ tool = "blur"
       /\ handleMouseMove(pt) /\ Count(0, 0)
  \/ handleMouseUp /\ Count(0, 0)
  \/ \E i \in Positions : SeqActing /\ handleObjectModified(i, MoveNear) /\ Count(0, 0)
  \/ /\ ~pointerDown /\ restores = <<>> /\ redoCount = 0
     /\ undoCount > 0 \/ actionCount \in UndoPoints
     /\ undoCount <= actionCount
     /\ undo /\ Count(1, 0)
  \/ /\ ~pointerDown /\ restores = <<>>
     /\ undoCount > 0 /\ redoCount < MaxRedo
     /\ redo /\ Count(0, 1)
  \/ RestoreResume(1) /\ Count(0, 0)

SpecSeq == Init /\ [][NextSeq]_vars

\* SpecLong: LongPrefix actions one after the other (a rectangle drawn over
\* the image, then moved), and after them every interleaving of the handlers,
\* within LongActions actions, LongUndos undos and LongRedos redos.
LongPrefixDone == actionCount >= LongPrefix

BoundedLong ==
  /\ actionCount' <= LongActions
  /\ AnnotationCount(objects') <= MaxObjs
  /\ Len(restores') <= MaxPending

NextLong ==
  \/ ImageLoaded /\ Count(0, 0) /\ BoundedLong
  \/ \E t \in {"select", "rect", "blur"} :
       /\ ~pointerDown
       /\ CASE actionCount = 0 -> t = "rect"
            [] actionCount > 0 /\ ~LongPrefixDone -> t = "select"
            [] OTHER -> t # "rect"
       /\ ToolChange(t) /\ Count(0, 0) /\ BoundedLong
  \/ \E pad \in Paddings :
       LongPrefixDone /\ PaddingChange(pad) /\ Count(0, 0) /\ BoundedLong
  \/ \E pt \in {NearStart, FarStart} :
       /\ imageRef # <<>>
       /\ IF LongPrefixDone THEN pt = FarStart
          ELSE pt = NearStart /\ tool = (IF actionCount = 0 THEN "rect" ELSE "select")
       /\ handleMouseDown(pt) /\ Count(0, 0) /\ BoundedLong
  \/ \E pt \in {NearEnd, FarEnd} :
       /\ pt = (IF LongPrefixDone THEN FarEnd ELSE NearEnd)
       /\ handleMouseMove(pt) /\ Count(0, 0) /\ BoundedLong
  \/ /\ IF LongPrefixDone \/ activeShapeRef = <<>> THEN TRUE
        ELSE activeShapeRef[1].width > 0
     /\ handleMouseUp /\ Count(0, 0) /\ BoundedLong
  \/ \E i \in Positions : handleObjectModified(i, MoveNear) /\ Count(0, 0) /\ BoundedLong
  \/ LongPrefixDone /\ undoCount < LongUndos /\ undo /\ Count(1, 0) /\ BoundedLong
  \/ LongPrefixDone /\ redoCount < LongRedos /\ redo /\ Count(0, 1) /\ BoundedLong
  \/ RestoreResume(1) /\ Count(0, 0) /\ BoundedLong

SpecLong == Init /\ [][NextLong]_vars

\* SpecRace: every interleaving of the handlers from the start, with the blur
\* tool and the drag FarStart -> FarEnd as the drawing gesture, within
\* RaceActions actions and RaceRestores calls of undo() and redo().
BoundedRace ==
  /\ actionCount' <= RaceActions
  /\ undoCount' + redoCount' <= RaceRestores
  /\ AnnotationCount(objects') <= MaxObjs
  /\ Len(restores') <= MaxPending

NextRace ==
  \/ ImageLoaded /\ Count(0, 0) /\ BoundedRace
  \/ \E t \in {"select", "blur"} :
       ~pointerDown /\ ToolChange(t) /\ Count(0, 0) /\ BoundedRace
  \/ \E pad \in Paddings : PaddingChange(pad) /\ Count(0, 0) /\ BoundedRace
  \/ imageRef # <<>> /\ handleMouseDown(FarStart) /\ Count(0, 0) /\ BoundedRace
  \/ handleMouseMove(FarEnd) /\ Count(0, 0) /\ BoundedRace
  \/ handleMouseUp /\ Count(0, 0) /\ BoundedRace
  \/ \E i \in Positions :
       handleObjectModified(i, MoveNear) /\ Count(0, 0) /\ BoundedRace
  \/ \E S \in SUBSET Positions : handleKeyDown(S) /\ Count(0, 0) /\ BoundedRace
  \/ undo /\ Count(1, 0) /\ BoundedRace
  \/ redo /\ Count(0, 1) /\ BoundedRace
  \/ \E i \in 1..MaxPending : RestoreResume(i) /\ Count(0, 0) /\ BoundedRace

SpecRace == Init /\ [][NextRace]_vars

-----------------------------------------------------------------------------
(* SpecText: the text tool next to the blur tool, undo and redo, within the   *)
(* budgets of SpecRace.                                                       *)

NextText ==
  \/ ImageLoaded /\ Count(0, 0) /\ BoundedRace
  \/ \E t \in {"select", "blur", "text"} :
       ~pointerDown /\ ToolChange(t) /\ Count(0, 0) /\ BoundedRace
  \/ \E pad \in Paddings : PaddingChange(pad) /\ Count(0, 0) /\ BoundedRace
  \/ \E pt \in {NearStart, FarStart} :
       imageRef # <<>> /\ handleMouseDown(pt) /\ Count(0, 0) /\ BoundedRace
  \/ handleMouseMove(FarEnd) /\ Count(0, 0) /\ BoundedRace
  \/ handleMouseUp /\ Count(0, 0) /\ BoundedRace
  \/ undo /\ Count(1, 0) /\ BoundedRace
  \/ redo /\ Count(0, 1) /\ BoundedRace
  \/ \E i \in 1..MaxPending : RestoreResume(i) /\ Count(0, 0) /\ BoundedRace

SpecText == Init /\ [][NextText]_vars

-----------------------------------------------------------------------------
(* createBlurRegion on its own, over source images, bounds and offsets        *)

ImgSizes == {ImgSize, [width |-> 800, height |-> 600]}
BoundsCoords == {0, 18, 50, 120, 900}
BoundsSizes == {5, 100, 1000}
Offsets == {0, 32, 96}

CallCreateBlurRegion(sourceImage, bounds, imagePadding) ==
  /\ blurCall = <<>>
  /\ blurCall' = << [sourceImage |-> sourceImage,
                     bounds |-> bounds,
                     imagePadding |-> imagePadding,
                     crop |-> CropOf(sourceImage, bounds, imagePadding),
                     result |-> createBlurRegionOf(sourceImage, bounds, imagePadding,
                                                   defaultBlockSize)] >>
  /\ UNCHANGED <<sceneVars, gestureVars, historyVars, countVars, viewVars, lifeVars, gradientCall>>

NextCrop ==
  \E sourceImage \in ImgSizes :
    \E l, t \in BoundsCoords : \E w, h \in BoundsSizes : \E ol, ot \in Offsets :
      CallCreateBlurRegion(sourceImage,
                           [left |-> l, top |-> t, width |-> w, height |-> h],
                           [left |-> ol, top |-> ot])

SpecCrop == Init /\ [][NextCrop]_vars

-----------------------------------------------------------------------------
(* SpecGradient: parseGradient on its own, called once on each descriptor     *)
(* and size.                                                                  *)

GradientWidths == {1, 100, 164, 800}
GradientHeights == {1, 100, 600}

CallParseGradient(cssGradient, width, height) ==
  /\ gradientCall = <<>>
  /\ gradientCall' = << [cssGradient |-> cssGradient, width |-> width, height |-> height,
                         result |-> parseGradient(cssGradient, width, height)] >>
  /\ UNCHANGED <<sceneVars, gestureVars, historyVars, countVars, viewVars, lifeVars, blurCall>>

NextGradient ==
  \E cssGradient \in Descriptors : \E width \in GradientWidths : \E height \in GradientHeights :
    CallParseGradient(cssGradient, width, height)

SpecGradient == Init /\ [][NextGradient]_vars

-----------------------------------------------------------------------------
(* SpecArrow: arrows drawn from the middle of a grid to each point of it, on  *)
(* even coordinates so that the middle of every drag is a whole pixel.        *)

ArrowStart == Pt(100, 100)
ArrowEnds == { Pt(x, y) : x \in {0, 100, 200}, y \in {0, 100, 200} }

NextArrow ==
  \/ tool = "select" /\ ToolChange("arrow") /\ Bounded
  \/ tool = "arrow" /\ handleMouseDown(ArrowStart) /\ Bounded
  \/ \E pt \in ArrowEnds : tool = "arrow" /\ handleMouseMove(pt) /\ Bounded
  \/ handleMouseUp /\ Bounded

SpecArrow == Init /\ [][NextArrow]_vars

-----------------------------------------------------------------------------
(* SpecDrag: one gesture on an empty canvas with each drawing tool, from two  *)
(* start points to each point of a grid around them, on even coordinates so   *)
(* that half of every extent is a whole pixel.  An arrow starts in the middle *)
(* of the grid, so that its head turns by an angle Atan2Deg covers.           *)

DragTools == {"rect", "ellipse", "line", "arrow", "blur"}
DragStarts == {ArrowStart, Pt(40, 160)}
DragPoints == { Pt(x, y) : x \in {0, 100, 200}, y \in {0, 100, 200} }

NextDrag ==
  \/ \E t \in DragTools : ~pointerDown /\ ToolChange(t) /\ Bounded
  \/ \E pt \in DragStarts :
       /\ tool # "select" /\ AnnotationCount(objects) = 0
       /\ tool = "arrow" => pt = ArrowStart
       /\ handleMouseDown(pt) /\ Bounded
  \/ \E pt \in DragPoints : handleMouseMove(pt) /\ Bounded
  \/ handleMouseUp /\ Bounded

SpecDrag == Init /\ [][NextDrag]_vars

-----------------------------------------------------------------------------
(* SpecView: either EditorApp over the canvas, with the image load, the       *)
(* container, the zoom controls, the layout controls and the export.          *)

ContainerSizes ==
  { [width |-> 64, height |-> 64], [width |-> 75, height |-> 75],
    [width |-> 146, height |-> 146], [width |-> 1064, height |-> 864] }

\* Presets (0.25, 0.5, 1, 2), slider positions (0.1, 0.15) and the inputs of
\* the clamp test (0.05, 3, -1), in thousandths.
ZoomRequests == {-1000, 50, 100, 150, 250, 500, 1000, 2000, 3000}

\* The initial radius and two presets.
BorderRadii == {0, 12, 32}

InitView == \E app \in {"first", "second"} : InitWith(app)

Still == UNCHANGED <<countVars, callVars>>

NextView ==
  \/ ImageLoaded /\ Still
  \/ \E size \in ContainerSizes : ContainerResize(size) /\ Still
  \/ \E z \in ZoomRequests : handleZoomChange(z) /\ Still
  \/ \E z \in ZoomRequests : handleZoomChangeSecond(z) /\ Still
  \/ \E pad \in Paddings : PaddingChange(pad) /\ Still
  \/ \E descriptor \in Descriptors : handleBackgroundColorChange(descriptor) /\ Still
  \/ \E r \in BorderRadii : handleBorderRadiusChange(r) /\ Still
  \/ exportToDataURL /\ Still

SpecView == InitView /\ [][NextView]_vars

\* SpecLife: the init effect over the lifetime of the component: image loads
\* in any order, the effect run again within MaxScenes canvases, the unmount,
\* and meanwhile the container and the layout controls.
NextLife ==
  \/ ImageLoaded /\ Still
  \/ canvases < MaxScenes /\ Remount /\ Still
  \/ Unmount /\ Still
  \/ \E size \in ContainerSizes : isMountedRef /\ ContainerResize(size) /\ Still
  \/ \E pad \in Paddings : isMountedRef /\ PaddingChange(pad) /\ Still
  \/ \E r \in BorderRadii : isMountedRef /\ handleBorderRadiusChange(r) /\ Still

SpecLife == InitView /\ [][NextLife]_vars

\* SpecScenes: rectangles drawn, undone and redone over the scenes the init
\* effect sets up one after the other, within MaxScenes canvases.
NextScenes ==
  \/ ImageLoaded /\ Bounded
  \/ canvases < MaxScenes /\ Remount /\ Bounded
  \/ \E t \in {"select", "rect"} : ~pointerDown /\ ToolChange(t) /\ Bounded
  \/ imageRef # <<>> /\ handleMouseDown(FarStart) /\ Bounded
  \/ handleMouseMove(FarEnd) /\ Bounded
  \/ handleMouseUp /\ Bounded
  \/ undo /\ Bounded
  \/ redo /\ Bounded

SpecScenes == Init /\ [][NextScenes]_vars

\* SpecSwitch: gestures with the tool shortcuts pressed at any moment, also
\* between pointer-down and pointer-up, and with drags that start on an
\* object that is still selectable while a drawing tool is active.
SwitchTools == {"select", "rect", "arrow", "blur"}

BoundedSwitch ==
  /\ Len(historyRef') <= MaxHist
  /\ AnnotationCount(objects') <= MaxObjs
  /\ UNCHANGED <<countVars, callVars>>

NextSwitch ==
  \/ ImageLoaded /\ BoundedSwitch
  \/ \E t \in SwitchTools : ToolChange(t) /\ BoundedSwitch
  \/ \E pad \in Paddings : PaddingChange(pad) /\ BoundedSwitch
  \/ imageRef # <<>> /\ handleMouseDown(FarStart) /\ BoundedSwitch
  \/ handleMouseMove(FarEnd) /\ BoundedSwitch
  \/ handleMouseUp /\ BoundedSwitch
  \/ \E i \in Positions : objectModified(i, MoveNear) /\ BoundedSwitch
  \/ \E S \in SUBSET Positions : handleKeyDown(S) /\ BoundedSwitch

SpecSwitch == Init /\ [][NextSwitch]_vars

\* SpecControls: the controls of the toolbar and the export, in any
\* interleaving with rectangle gestures and undo.
ControlTools == {"select", "rect"}
ControlFills == {PurpleBlue, White}
ControlRadii == {0, 12}
ControlZooms == {2000}

BoundedControls ==
  /\ Len(historyRef') <= MaxControlHist
  /\ AnnotationCount(objects') <= MaxControlObjs
  /\ UNCHANGED <<countVars, callVars>>

NextControls ==
  \/ ImageLoaded /\ BoundedControls
  \/ \E t \in ControlTools : ToolChange(t) /\ BoundedControls
  \/ \E pad \in Paddings : PaddingChange(pad) /\ BoundedControls
  \/ \E descriptor \in ControlFills : handleBackgroundColorChange(descriptor) /\ BoundedControls
  \/ \E r \in ControlRadii : handleBorderRadiusChange(r) /\ BoundedControls
  \/ \E z \in ControlZooms : handleZoomChange(z) /\ BoundedControls
  \/ exportToDataURL /\ BoundedControls
  \/ imageRef # <<>> /\ handleMouseDown(FarStart) /\ BoundedControls
  \/ handleMouseMove(FarEnd) /\ BoundedControls
  \/ handleMouseUp /\ BoundedControls
  \/ undo /\ BoundedControls

SpecControls == Init /\ [][NextControls]_vars

-----------------------------------------------------------------------------
(* Properties of the history                                                  *)

Last(s) == s[Len(s)]

\* The entries saveToHistory keeps before pushing, from the state before.
KeptEntries ==
  IF historyIndexRef < Len(historyRef) - 1
  THEN SubSeq(historyRef, 1, historyIndexRef + 1)
  ELSE historyRef

\* The canvas `objs` shows what the entry `data` holds: object by object the
\* same class, transform and blur metadata, and, for every object that is not
\* an image, the same serialised properties.
Restored(objs, data) ==
  LET a == AnnotationObjects(objs)
  IN /\ Len(a) = Len(data)
     /\ \A k \in DOMAIN data :
          /\ a[k].type = data[k].type
          /\ a[k].angle = data[k].angle
          /\ a[k].scaleX = data[k].scaleX /\ a[k].scaleY = data[k].scaleY
          /\ a[k].blurRegionData = data[k].blurRegionData
          /\ data[k].type # "Image" => Serialize(a[k]) = data[k]

\* This step ran restoreFromHistory on the entry `index`: it either completed
\* (scene replaced, cursor on index) or is suspended in a decode for it.
RestoreRuns(index) ==
  /\ index + 1 \in DOMAIN historyRef
  /\ historyRef' = historyRef
  /\ \/ /\ restores' = restores
        /\ historyIndexRef' = index
        /\ ~isRestoringRef'
        /\ Restored(objects', historyRef[index + 1])
     \/ /\ Len(restores') = Len(restores) + 1
        /\ Last(restores').index = index
        /\ Last(restores').data = historyRef[index + 1]
        /\ isRestoringRef'
        /\ historyIndexRef' = historyIndexRef

\* C1: in every reachable state the log holds at most 50 entries and the
\* cursor satisfies -1 <= historyIndexRef <= Len(historyRef) - 1, whatever the
\* order of saves, undos, redos and restores, restores still suspended included.
C1_CursorInRange ==
  /\ Len(historyRef) <= maxHistorySize
  /\ -1 <= historyIndexRef
  /\ historyIndexRef <= Len(historyRef) - 1

\* C2: a save that runs with no restore in progress while the cursor i is
\* before the last entry leaves exactly the entries 0..i followed by the new
\* snapshot, with the cursor on i + 1, the last entry (no redo is left).
C2_SaveTruncates ==
  [][(lastCall' \in {"appended", "truncated", "evicted"}
        /\ historyIndexRef < Len(historyRef) - 1)
     => /\ historyRef' = Append(SubSeq(historyRef, 1, historyIndexRef + 1),
                                Snapshot(objects'))
        /\ historyIndexRef' = historyIndexRef + 1
        /\ historyIndexRef' = Len(historyRef') - 1]_vars

\* A save has just cut the log back to its first entry and pushed a second.
C2_Witness ==
  /\ lastCall = "truncated"
  /\ Len(historyRef) = 2
  /\ historyIndexRef = 1

\* C3: a save whose push makes the log exceed 50 entries evicts exactly the
\* oldest entry, leaves 50 entries, does not advance the cursor, and the cursor
\* is on the entry just pushed, the last one; every other save that is not
\* suppressed advances the cursor by exactly one.
C3_Eviction ==
  [][/\ lastCall' = "evicted"
        => /\ Len(historyRef) = maxHistorySize
           /\ historyRef' = Append(Tail(historyRef), Snapshot(objects'))
           /\ Len(historyRef') = maxHistorySize
           /\ historyIndexRef' = historyIndexRef
           /\ historyIndexRef' = Len(historyRef') - 1
     /\ lastCall' \in {"appended", "truncated"}
        => historyIndexRef' = historyIndexRef + 1]_vars

\* The scene after k actions of the run that draws a rectangle with the drag
\* NearStart -> NearEnd and then moves it k - 1 times by MoveNear.
DrawnRect == Serialize(MovedShape(NewShape("rect", NearStart), NearStart, NearEnd))
StateAfter(k) ==
  << [DrawnRect EXCEPT !.left = @ + (k - 1) * MoveNear.by,
                       !.top = @ + (k - 1) * MoveNear.by] >>

C5_Undo ==
  [][lastCall' = "undo"
     => IF historyIndexRef > 0
        THEN RestoreRuns(historyIndexRef - 1)
        ELSE IF historyIndexRef = 0
        THEN /\ AnnotationObjects(objects') = <<>>
             /\ FixedLayers(objects') = FixedLayers(objects)
             /\ historyRef' = historyRef
             /\ historyIndexRef' = -1
             /\ restores' = restores
        ELSE UNCHANGED <<objects, historyRef, historyIndexRef, restores>>]_vars

\* C6: redo() with the cursor before the last entry restores the entry after
\* the cursor and the cursor goes up by one (from -1 over a non-empty log it
\* restores entry 0); otherwise it changes neither the scene nor the history.
C6_Redo ==
  [][lastCall' = "redo"
     => IF historyIndexRef < Len(historyRef) - 1
        THEN RestoreRuns(historyIndexRef + 1)
        ELSE UNCHANGED <<objects, historyRef, historyIndexRef, isRestoringRef,
                         restores>>]_vars

\* One action, undone to the empty scene, and redone: entry 0 is on the canvas.
C6_Witness ==
  /\ lastCall = "redo"
  /\ undoCount = 1 /\ redoCount = 1
  /\ historyIndexRef = 0
  /\ restores = <<>>
  /\ Restored(objects, historyRef[1])
  /\ AnnotationObjects(objects) # <<>>

\* C7: canUndo() is true exactly when the cursor is at least 0 and canRedo()
\* exactly when it is before the last entry: no undo at -1, undo at 0, and
\* redo at -1 over a non-empty log.
C7_CanUndoCanRedo ==
  /\ canUndo <=> historyIndexRef >= 0
  /\ canRedo <=> historyIndexRef < Len(historyRef) - 1
  /\ historyIndexRef = -1 => ~canUndo
  /\ historyIndexRef = 0 => canUndo
  /\ (historyIndexRef = -1 /\ historyRef # <<>>) => canRedo

\* Everything was undone: the log is not empty and the cursor is on -1.
C7_Witness ==
  /\ lastCall = "undo"
  /\ historyIndexRef = -1
  /\ historyRef # <<>>
  /\ canRedo /\ ~canUndo

\* C8: after exactly one drawing action from the empty scene (rectangle,
\* ellipse, line, arrow, text or blur), undo() and then redo() give back the
\* annotation objects, in order, and the cursor of the moment right after the
\* action, which are those of the entry the action saved.
C8_UndoRedoRoundTrip ==
  (/\ actionCount = 1 /\ undoCount = 1 /\ redoCount = 1
   /\ lastCall \in {"redo", "resume"}
   /\ restores = <<>>)
  => /\ Snapshot(objects) = historyRef[1]
     /\ historyIndexRef = 0

\* The round trip of a rectangle: same object, same cursor.
C8_Witness ==
  /\ actionCount = 1 /\ undoCount = 1 /\ redoCount = 1
  /\ lastCall = "redo"
  /\ restores = <<>>
  /\ historyRef[1] = StateAfter(1)
  /\ Snapshot(objects) = historyRef[1]
  /\ historyIndexRef = 0

\* C9: undo(), redo() and a restore, when called and when it goes on after a
\* decode, leave the log as it is: same entries, same order, same number.
C9_LogImmutable ==
  [][lastCall' \in {"undo", "redo", "resume"} => historyRef' = historyRef]_vars

\* A restore that had to wait for a decode has completed over a log of
\* several entries.
C9_Witness ==
  /\ lastCall = "resume"
  /\ restores = <<>>
  /\ Len(historyRef) >= 2
  /\ AnnotationObjects(objects) # <<>>

\* C10: every completed annotation mutation (a shape finalised on pointer up,
\* a text created, an object moved, a deletion that removed something) pushes
\* exactly one entry, the snapshot of the scene right after the mutation.
C10_OneEntryPerMutation ==
  [][lastCall' \in {"appended", "truncated", "evicted", "suppressed"}
     => /\ lastCall' # "suppressed"
        /\ \/ historyRef' = Append(KeptEntries, Snapshot(objects'))
           \/ historyRef' = Tail(Append(KeptEntries, Snapshot(objects')))]_vars

-----------------------------------------------------------------------------
(* Properties of the scene                                                    *)

IsFixedLayer(o) == o.type \in {"bgRect", "sourceImage"}

\* The log after one push over the state before: the kept entries and the
\* snapshot of the scene after, less the oldest entry when the log overflows.
OnePush ==
  LET pushed == Append(KeptEntries, Snapshot(objects'))
  IN historyRef' = (IF Len(pushed) > maxHistorySize THEN Tail(pushed) ELSE pushed)

\* C11: the delete key over the selection S with the tool select removes the
\* objects of S that are not fixed layers, keeps the fixed layers, and pushes
\* exactly one entry when something was removed and none otherwise; with any
\* other tool it removes nothing and pushes nothing.
C11_Delete ==
  [][\A S \in SUBSET Positions :
       handleKeyDown(S)
       => IF tool = "select"
          THEN LET removed == {i \in S : ~IsFixedLayer(objects[i])}
               IN /\ objects' = RemoveAt(objects, removed)
                  /\ FixedLayers(objects') = FixedLayers(objects)
                  /\ IF removed # {} THEN OnePush
                     ELSE historyRef' = historyRef /\ historyIndexRef' = historyIndexRef
          ELSE /\ objects' = objects
               /\ historyRef' = historyRef
               /\ historyIndexRef' = historyIndexRef]_vars

\* A deletion removed the only annotation object and pushed the empty scene.
C11_Witness ==
  /\ tool = "select"
  /\ lastCall \in {"appended", "truncated"}
  /\ Len(historyRef) >= 2
  /\ Last(historyRef) = <<>>
  /\ AnnotationObjects(objects) = <<>>

\* C12: whenever an annotation object is on the canvas, the background and
\* the source image are both there exactly once, the background first, the
\* image second, and so both behind every annotation object.
C12_FixedLayersBehind ==
  AnnotationObjects(objects) # <<>>
  => /\ Len(FixedLayers(objects)) = 2
     /\ objects[1].type = "bgRect"
     /\ objects[2].type = "sourceImage"
     /\ \A i \in DOMAIN objects : i > 2 => ~IsFixedLayer(objects[i])

\* A rectangle was drawn after the image was decoded: it is in front of both.
C12_Witness ==
  /\ Len(objects) = 3
  /\ objects[1].type = "bgRect"
  /\ objects[2].type = "sourceImage"
  /\ objects[3].type = "Rect" /\ ~objects[3].live
  /\ lastCall = "appended"

\* C13: every annotation object on the canvas, one just drawn and one put back
\* by undo or redo included, is selectable exactly when the tool is select,
\* and evented exactly when the tool is select.
C13_SelectableIffSelect ==
  \A i \in DOMAIN objects :
    IsAnnotation(objects[i])
    => /\ objects[i].selectable <=> tool = "select"
       /\ objects[i].evented <=> tool = "select"

\* A drawing tool was chosen over a finished object: the tool effect has made
\* the object neither selectable nor evented.
C13_Witness ==
  /\ tool # "select"
  /\ \E i \in DOMAIN objects :
       /\ IsAnnotation(objects[i]) /\ ~objects[i].live
       /\ ~objects[i].selectable /\ ~objects[i].evented

\* The rectangle of the live shape and the image overlap in scene space.
OverlapsImage(rect, pad) ==
  /\ rect.left < pad.left + ImgSize.width
  /\ rect.left + rect.width > pad.left
  /\ rect.top < pad.top + ImgSize.height
  /\ rect.top + rect.height > pad.top

\* The pointer is released over a blur drag: handleMouseUp in its blur branch.
BlurRelease ==
  /\ pointerDown /\ ~pointerDown'
  /\ tool = "blur"
  /\ activeShapeRef # <<>>
  /\ activeShapeRef[1].type = "Rect"

-----------------------------------------------------------------------------
(* Properties of createBlurRegion                                             *)

\* C15: for every source image, bounds and offset the crop is
\* [max(0, left - offsetLeft), min(imgWidth, left + width - offsetLeft)) by
\* [max(0, top - offsetTop), min(imgHeight, top + height - offsetTop)); a patch
\* that is produced is placed at the offset plus the crop's corner and lies
\* inside the image's rectangle in scene space; bounds {50, 50, 100, 100} at
\* offset {32, 32} over an image 800 x 600 crop to {18, 18, 100, 100}.
C15_BlurCrop ==
  blurCall # <<>>
  => LET c == blurCall[1]
         b == c.bounds
         off == c.imagePadding
         img == c.sourceImage
         cropLeft == IF b.left - off.left > 0 THEN b.left - off.left ELSE 0
         cropTop == IF b.top - off.top > 0 THEN b.top - off.top ELSE 0
         right == b.left + b.width - off.left
         bottom == b.top + b.height - off.top
         cropRight == IF right < img.width THEN right ELSE img.width
         cropBottom == IF bottom < img.height THEN bottom ELSE img.height
     IN /\ c.crop = [left |-> cropLeft, top |-> cropTop,
                     width |-> cropRight - cropLeft, height |-> cropBottom - cropTop]
        /\ c.result # <<>>
           => /\ c.result[1].left = off.left + cropLeft
              /\ c.result[1].top = off.top + cropTop
              /\ c.result[1].left >= off.left
              /\ c.result[1].top >= off.top
              /\ c.result[1].left + c.result[1].width <= off.left + img.width
              /\ c.result[1].top + c.result[1].height <= off.top + img.height
        /\ (/\ b.left = 50 /\ b.top = 50 /\ b.width = 100 /\ b.height = 100
            /\ off.left = 32 /\ off.top = 32
            /\ img.width = 800 /\ img.height = 600)
           => /\ c.crop.left = 18 /\ c.crop.top = 18
              /\ c.crop.width = 100 /\ c.crop.height = 100

\* The call of the example: a patch 100 by 100 placed at (50, 50).
C15_Witness ==
  /\ blurCall # <<>>
  /\ blurCall[1].bounds.left = 50 /\ blurCall[1].bounds.top = 50
  /\ blurCall[1].bounds.width = 100 /\ blurCall[1].bounds.height = 100
  /\ blurCall[1].imagePadding.left = 32 /\ blurCall[1].imagePadding.top = 32
  /\ blurCall[1].sourceImage.width = 800 /\ blurCall[1].sourceImage.height = 600
  /\ blurCall[1].result # <<>>
  /\ blurCall[1].result[1].left = 50 /\ blurCall[1].result[1].width = 100

\* A restore has just completed: the canvas shows the entry under the cursor.
RestoreDone ==
  /\ lastCall \in {"undo", "redo", "resume"}
  /\ restores = <<>> /\ ~isRestoringRef
  /\ historyIndexRef + 1 \in DOMAIN historyRef
  /\ Len(AnnotationObjects(objects)) = Len(historyRef[historyIndexRef + 1])

\* C16: a blur region put back by a restore has the crop rectangle and the
\* place it had when createBlurRegion first made it from the same
\* originalBounds and blockSize under the padding of that moment (which, in
\* SpecSeq, is the padding of every later moment); a region the user moved
\* afterwards may also be at the place the entry records.
C16_BlurRegenerated ==
  RestoreDone
  => LET data == historyRef[historyIndexRef + 1]
         shown == AnnotationObjects(objects)
     IN \A k \in DOMAIN data :
          (data[k].type = "Image" /\ data[k].blurRegionData # <<>>)
          => LET first == createBlurRegionOf(ImgSize,
                                             data[k].blurRegionData[1].originalBounds,
                                             padding,
                                             data[k].blurRegionData[1].blockSize)
             IN /\ first # <<>>
                /\ shown[k].width = first[1].width
                /\ shown[k].height = first[1].height
                /\ \/ shown[k].left = first[1].left /\ shown[k].top = first[1].top
                   \/ shown[k].left = data[k].left /\ shown[k].top = data[k].top

\* A blur region drawn under the initial padding was undone and redone: it is
\* back with the crop and at the place of its creation.
C16_Witness ==
  /\ RestoreDone
  /\ lastCall = "redo"
  /\ padding = InitialPadding
  /\ actionCount = 1
  /\ LET shown == AnnotationObjects(objects)
     IN /\ Len(shown) = 1
        /\ shown[1].type = "Image"
        /\ shown[1].blurRegionData # <<>>
        /\ shown[1].left = NearStart.x /\ shown[1].width = NearEnd.x - NearStart.x

-----------------------------------------------------------------------------
(* Properties of the zoom, the export and the background fill                 *)

\* C17: every zoom request z of the user (a preset or the slider) sets the
\* zoom to max(0.1, min(2.0, z)), whichever handleZoomChange serves it: 0.05
\* becomes 0.1, 3 becomes 2.0, a value within [0.1, 2.0] is kept.
C17_ZoomClamp ==
  [][\A z \in ZoomRequests :
       (handleZoomChange(z) \/ handleZoomChangeSecond(z))
         => zoom' = Max(minZoom, Min(maxZoom, z))]_vars

\* A request below 0.25 was served by the second handleZoomChange, with the
\* image on the canvas.
C17_Witness ==
  /\ editorApp = "second"
  /\ imageRef # <<>>
  /\ zoom = minZoomSecond
  /\ canvasZoom = minZoomSecond

\* C18: in every reachable state editorState.zoom is 0 (the fit is not yet
\* computed) or within [0.1, 2.0], the value the initial zoom effect hands to
\* handleZoomCalculated included.
C18_ZoomDomain == zoom = 0 \/ (minZoom <= zoom /\ zoom <= maxZoom)

\* The first EditorApp holds a fit zoom below 0.1, computed for a container
\* that is small against the canvas.
C18_Witness ==
  /\ editorApp = "first"
  /\ hasCalculatedInitialZoomRef
  /\ zoom > 0 /\ zoom < minZoom
  /\ canvasZoom = zoom

\* C19: exportToDataURL rasterises at zoom 1 on the canvas at its unscaled
\* size, clipped to the corner radius when that is above 0, and leaves the
\* zoom, the clip of the canvas and the size of the display surface as they
\* were before the call; when the canvas has no size yet it returns null and
\* changes nothing.
C19_ExportRestores ==
  [][exportToDataURL =>
       LET size == canvasSizeOf(imageRef, padding)
           e == exported'[1]
       IN IF size.width = 0
          THEN /\ ~e.dataURL
               /\ UNCHANGED <<sceneVars, gestureVars, historyVars, appVars>>
               /\ UNCHANGED <<hasCalculatedInitialZoomRef, canvasZoom, canvasDims,
                              clipPath, bgFill>>
          ELSE /\ e.dataURL
               /\ e.zoom = zoomOne
               /\ e.dims.width = size.width * zoomOne
               /\ e.dims.height = size.height * zoomOne
               /\ borderRadius > 0 =>
                    /\ e.clip # <<>>
                    /\ e.clip[1].rx = borderRadius
                    /\ e.clip[1].width = size.width
                    /\ e.clip[1].height = size.height
               /\ borderRadius = 0 => e.clip = clipPath
               /\ canvasZoom' = canvasZoom
               /\ clipPath' = clipPath
               /\ canvasDims' = canvasDims
               /\ UNCHANGED <<sceneVars, gestureVars, historyVars, appVars>>
               /\ UNCHANGED <<hasCalculatedInitialZoomRef, bgFill>>]_vars

\* An export with rounded corners was made from a canvas shown at a zoom
\* other than 1, and the canvas is as before.
C19_Witness ==
  /\ exported # <<>>
  /\ exported[1].dataURL
  /\ exported[1].clip # <<>>
  /\ borderRadius > 0
  /\ canvasZoom # zoomOne /\ canvasZoom > 0
  /\ canvasDims.width = canvasSizeOf(imageRef, padding).width * canvasZoom
  /\ clipPath = <<>>

\* linear-gradient(<angle>deg, <color> 0%, <color> 100%): an angle and exactly
\* two color stops, at 0% and at 100%.
IsWord(t) == t \notin {"linear-gradient(", "deg", ",", " ", "%", ")"} /\ ~IsDigits(t)
TwoStopForm(d) ==
  /\ Len(d) = Len(PurpleBlue)
  /\ IsDigits(d[2]) /\ IsWord(d[6]) /\ IsWord(d[12])
  /\ d = LinearGradient(Deg(d[2]), <<Stop(<<d[6]>>, "0"), Stop(<<d[12]>>, "100")>>)

\* C20: when the background descriptor is not of the two-stop linear-gradient
\* form, parseGradient returns null and the fill of the background rectangle
\* is the descriptor itself, after the image was added and after every run of
\* the layout effect.
C20_FallbackFill ==
  bgFill # <<>> /\ ~TwoStopForm(backgroundColor)
    => /\ parseGradient(backgroundColor, fullCanvasWidth(padding),
                        fullCanvasHeight(padding)) = <<>>
       /\ bgFill[1].gradient = <<>>
       /\ bgFill[1].flat = <<backgroundColor>>

\* The background rectangle is filled with a gradient that parseGradient
\* made of a descriptor with three color stops.
C20_Witness ==
  /\ bgFill # <<>>
  /\ ~TwoStopForm(backgroundColor)
  /\ bgFill[1].gradient # <<>>
  /\ Len(bgFill[1].gradient[1].colorStops[2].color) > 1

-----------------------------------------------------------------------------
(* Properties of parseGradient                                                *)

\* C21: for a descriptor of the two-stop form and a positive width and height
\* the gradient runs from (0.5 - cos/2, 0.5 - sin/2) to (0.5 + cos/2,
\* 0.5 + sin/2) of the angle turned back by 90 degrees, scaled by (width,
\* height): from the bottom centre to the top centre for 0deg (y1 > y2), from
\* the left centre to the right centre for 90deg (x1 < x2).
C21_GradientCoords ==
  gradientCall # <<>> /\ TwoStopForm(gradientCall[1].cssGradient)
  => LET c == gradientCall[1]
         angle == ParseInt[c.cssGradient[2]]
     IN /\ c.result # <<>>
        /\ angle = 0 =>
             /\ c.result[1].coords.y1 > c.result[1].coords.y2
             /\ c.result[1].coords.y1 = 1000 * c.height /\ c.result[1].coords.y2 = 0
             /\ c.result[1].coords.x1 = 500 * c.width /\ c.result[1].coords.x2 = 500 * c.width
        /\ angle = 90 =>
             /\ c.result[1].coords.x1 < c.result[1].coords.x2
             /\ c.result[1].coords.x1 = 0 /\ c.result[1].coords.x2 = 1000 * c.width
             /\ c.result[1].coords.y1 = 500 * c.height /\ c.result[1].coords.y2 = 500 * c.height
        /\ angle \in {45, 135} =>
             /\ c.result[1].coords.x1 < c.result[1].coords.x2
             /\ c.result[1].coords.x1 + c.result[1].coords.x2 = 1000 * c.width
             /\ c.result[1].coords.y1 + c.result[1].coords.y2 = 1000 * c.height
             /\ (angle = 45) = (c.result[1].coords.y1 > c.result[1].coords.y2)

\* parseGradient was called on the 90deg descriptor of the test with a width
\* that differs from the height, and returned a gradient.
C21_Witness ==
  /\ gradientCall # <<>>
  /\ TwoStopForm(gradientCall[1].cssGradient)
  /\ gradientCall[1].cssGradient[2] = "90"
  /\ gradientCall[1].width = 800 /\ gradientCall[1].height = 600
  /\ gradientCall[1].result # <<>>
  /\ gradientCall[1].result[1].coords.x2 = 800000

-----------------------------------------------------------------------------
(* Properties of the arrow                                                    *)

\* The arrow tool is released over its temporary line.
ArrowRelease ==
  /\ handleMouseUp
  /\ tool = "arrow" /\ activeShapeRef # <<>> /\ activeShapeRef[1].type = "Line"
  /\ startPointRef # <<>>

\* C22: the arrow group made on pointer-up from the drag p1 -> p2 sits at the
\* midpoint of p1 and p2 and holds exactly a line from p1 - center to
\* p2 - center and a head at p2 - center; the head is turned by
\* atan2(p2.y - p1.y, p2.x - p1.x) in degrees plus 90: 90 for an arrow that
\* points right, 180 for one that points down.
C22_ArrowGroup ==
  [][ArrowRelease =>
       LET p1 == startPointRef[1]
           p2 == Pt(activeShapeRef[1].x2, activeShapeRef[1].y2)
           dx == p2.x - p1.x
           dy == p2.y - p1.y
           g == objects'[Len(objects')]
           turn == CASE dx >= 0 /\ dy = 0 -> 90
                     [] dx > 0 /\ dy > 0 -> 135
                     [] dx = 0 /\ dy > 0 -> 180
                     [] dx < 0 /\ dy > 0 -> 225
                     [] dx < 0 /\ dy = 0 -> 270
                     [] dx < 0 /\ dy < 0 -> -45
                     [] dx = 0 /\ dy < 0 -> 0
                     [] dx > 0 /\ dy < 0 -> 45
       IN /\ Len(objects') = Len(objects)
          /\ g.type = "Group"
          /\ 2 * g.left = p1.x + p2.x /\ 2 * g.top = p1.y + p2.y
          /\ Len(g.objects) = 2
          /\ g.objects[1].type = "Line"
          /\ g.objects[1].x1 = p1.x - g.left /\ g.objects[1].y1 = p1.y - g.top
          /\ g.objects[1].x2 = p2.x - g.left /\ g.objects[1].y2 = p2.y - g.top
          /\ g.objects[2].type = "Triangle"
          /\ g.objects[2].left = p2.x - g.left /\ g.objects[2].top = p2.y - g.top
          /\ g.objects[2].angle = turn]_vars

\* An arrow that points down and one that points right are on the canvas.
C22_Witness ==
  /\ activeShapeRef = <<>>
  /\ \E i \in DOMAIN objects :
       /\ objects[i].type = "Group"
       /\ objects[i].left = 100 /\ objects[i].top = 150
       /\ objects[i].objects[2].angle = 180
       /\ objects[i].objects[2].top = 50
  /\ \E i \in DOMAIN objects :
       /\ objects[i].type = "Group"
       /\ objects[i].left = 150 /\ objects[i].top = 100
       /\ objects[i].objects[2].angle = 90
       /\ objects[i].objects[1].x1 = -50

-----------------------------------------------------------------------------
(* Properties of the text tool                                                *)

\* C23: pointer-down with the text tool adds exactly one text object with the
\* placeholder content at the pointer, starts no drawing (no live object is
\* kept), and pushes exactly one entry right then; the pointer-up that
\* follows pushes nothing.
C23_TextDown ==
  [][LET down(pt) == tool = "text" /\ handleMouseDown(pt)
         made(pt) == /\ Len(objects') = Len(objects) + 1
                     /\ SubSeq(objects', 1, Len(objects)) = objects
                     /\ Last(objects').type = "IText"
                     /\ Last(objects').text = "Type here"
                     /\ Last(objects').left = pt.x /\ Last(objects').top = pt.y
                     /\ activeShapeRef' = <<>>
                     /\ \A i \in DOMAIN objects' : ~objects'[i].live
                     /\ OnePush
         up == tool = "text" /\ handleMouseUp
         nothing == /\ historyRef' = historyRef
                    /\ historyIndexRef' = historyIndexRef
                    /\ objects' = objects
     IN /\ \A pt \in {NearStart, FarStart} : (down(pt) => made(pt))
        /\ (up => nothing)]_vars

\* A text object was made by a pointer-down and recorded, and the pointer is
\* up again.
C23_Witness ==
  /\ tool = "text"
  /\ ~pointerDown
  /\ ~isDrawing
  /\ historyRef # <<>>
  /\ objects # <<>>
  /\ Last(objects).type = "IText"
  /\ Len(Last(historyRef)) = Len(AnnotationObjects(objects))
  /\ Last(Last(historyRef)).type = "IText"

(***************************************************************************)
(* Properties of the initial zoom                                          *)
(***************************************************************************)

\* The extent the initial zoom effect reads in a step: the canvasSize the
\* decode's callback sets when the step is the image load, the current one
\* otherwise.
ExtentAtFit ==
  IF imageRef = <<>>
  THEN LET d == CHOOSE d \in decodes : d \notin decodes'
       IN canvasSizeOf(imageRef', d.padding)
  ELSE canvasSizeOf(imageRef, padding)

C25_LayoutUpdate ==
  [][(/\ imageRef # <<>>
      /\ bgRectRef # <<>>
      /\ \/ padding' # padding
         \/ backgroundColor' # backgroundColor
         \/ borderRadius' # borderRadius)
     => LET extent == [width |-> ImgSize.width + padding'.left + padding'.right,
                       height |-> ImgSize.height + padding'.top + padding'.bottom]
        IN /\ \A i \in DOMAIN objects' :
                /\ (objects'[i].type = "bgRect"
                      => /\ objects'[i].width = extent.width
                         /\ objects'[i].height = extent.height)
                /\ (objects'[i].type = "sourceImage"
                      => /\ objects'[i].left = padding'.left
                         /\ objects'[i].top = padding'.top)
           /\ canvasDims' = Scaled(extent, canvasZoom')
           /\ zoom' = zoom
           /\ canvasZoom' = canvasZoom]_vars

\* A scene in fit mode whose padding was changed after the fit was computed
\* for a 146x146 container.
C25_Witness ==
  /\ editorApp = "second"
  /\ imageRef # <<>>
  /\ padding # InitialPadding
  /\ hasCalculatedInitialZoomRef
  /\ zoom = -zoomOne
  /\ canvasZoom = fitZoomOf([width |-> 146, height |-> 146],
                            canvasSizeOf(imageRef, InitialPadding))
  /\ canvasZoom < zoomOne
  /\ canvasDims = Scaled(canvasSizeOf(imageRef, padding), canvasZoom)

(***************************************************************************)
(* Properties of repeated undo                                             *)
(***************************************************************************)

\* restoreFromHistory run to its end over data from position k, every decode
\* it waits for completing before anything else happens.
RECURSIVE RestoreCompleted(_, _, _)
RestoreCompleted(objs, data, k) ==
  LET run == RestoreLoop(objs, data, k)
  IN IF run.at = 0 THEN run.objects
     ELSE RestoreCompleted(run.objects \o run.decoded, data, run.at + 1)

\* One undo() whose restore completes, from the scene objs and the cursor index.
UndoCompleted(s) ==
  IF s.index > 0
  THEN IF s.index \in DOMAIN historyRef
       THEN [objects |-> RestoreCompleted(FixedLayers(s.objects), historyRef[s.index], 1),
             index |-> s.index - 1]
       ELSE s
  ELSE IF s.index = 0
  THEN [objects |-> FixedLayers(s.objects), index |-> -1]
  ELSE s

\* n undos in a row; canUndo() is false once the cursor is below 0.
RECURSIVE UndoTimes(_, _)
UndoTimes(s, n) ==
  IF n = 0 THEN s
  ELSE LET t == UndoCompleted(s)
       IN IF t.index >= 0 THEN UndoTimes(t, n - 1) ELSE t

\* C26: from every state with no restore pending, currentIndex + 1 undos in a
\* row, each restore completing, end in the scene without annotation objects
\* with the cursor at -1, where canUndo() is false.
C26_UndoToEmpty ==
  (restores = <<>> /\ historyIndexRef >= 0)
    => LET end == UndoTimes([objects |-> objects, index |-> historyIndexRef],
                            historyIndexRef + 1)
       IN /\ end.index = -1
          /\ \A i \in DOMAIN end.objects : ~IsAnnotation(end.objects[i])

\* A full log with the cursor on its last entry and annotations on the
\* canvas, from where the undos do end in the empty scene.
C26_Witness ==
  /\ restores = <<>>
  /\ Len(historyRef) = maxHistorySize
  /\ historyIndexRef = Len(historyRef) - 1
  /\ \E i \in DOMAIN objects : IsAnnotation(objects[i])
  /\ UndoTimes([objects |-> objects, index |-> historyIndexRef],
               historyIndexRef + 1).index = -1

(***************************************************************************)
(* Properties of restores that overlap                                     *)
(***************************************************************************)

\* C27: while a restore is executing (started and not yet finished), every
\* call of saveToHistory, whichever handler makes it, returns at its guard:
\* the log and the cursor are left as they are, also when undo() or redo()
\* was invoked again in between.
C27_NoSaveDuringRestore ==
  [][restores # <<>>
     => /\ lastCall' \notin {"appended", "truncated", "evicted"}
        /\ historyRef' = historyRef]_vars

\* A save that returned at the guard while a restore was suspended.
C27_Witness ==
  /\ restores # <<>>
  /\ isRestoringRef
  /\ lastCall = "suppressed"
  /\ Len(historyRef) >= 2

\* The annotation objects of `objs` are those of the entry `data`, one for
\* one and in order: the same class and transform, and the same serialised
\* properties for every object that is not a regenerated image.
SameObjects(objs, data) ==
  LET a == AnnotationObjects(objs)
  IN /\ Len(a) = Len(data)
     /\ \A k \in DOMAIN data :
          /\ a[k].type = data[k].type
          /\ a[k].angle = data[k].angle
          /\ a[k].scaleX = data[k].scaleX /\ a[k].scaleY = data[k].scaleY
          /\ data[k].type # "Image" => Serialize(a[k]) = data[k]

\* C28: when an undo or redo has run and no restore is in progress, with the
\* cursor at 0 or above, the annotation objects of the scene are, in order,
\* those of the entry at the cursor: none duplicated, missing or foreign,
\* also when undo() or redo() was invoked again before an earlier restore
\* had completed.
C28_SceneIsEntry ==
  (/\ lastCall \in {"undo", "redo", "resume"}
   /\ restores = <<>>
   /\ ~isRestoringRef
   /\ ~pointerDown
   /\ historyIndexRef >= 0)
    => /\ historyIndexRef + 1 \in DOMAIN historyRef
       /\ SameObjects(objects, historyRef[historyIndexRef + 1])

\* A restore that was suspended in a decode has completed over a log of two
\* entries and the scene shows the entry at the cursor.
C28_Witness ==
  /\ lastCall = "resume"
  /\ restores = <<>>
  /\ ~isRestoringRef
  /\ ~pointerDown
  /\ historyIndexRef >= 0
  /\ Len(historyRef) >= 2
  /\ historyIndexRef + 1 \in DOMAIN historyRef
  /\ AnnotationObjects(objects) # <<>>
  /\ SameObjects(objects, historyRef[historyIndexRef + 1])

(***************************************************************************)
(* Properties of the scene's lifetime                                      *)
(***************************************************************************)

\* C29: the completion of a source-image decode started for a canvas that is
\* no longer the current one (the scene was torn down, and possibly set up
\* again, while the decode was pending) mutates nothing: no layer is added to
\* the disposed canvas, and the references to the source image and the
\* background of the current scene are not replaced.
C29_StaleDecodeDiscarded ==
  [][\A d \in decodes :
       (d \notin decodes' /\ d.canvas # fabricRef)
       => /\ staleWrites' = staleWrites
          /\ imageRef' = imageRef
          /\ bgRectRef' = bgRectRef
          /\ layersOf' = layersOf]_vars

\* The decode of an unmounted component has completed and was discarded.
C29_Witness ==
  /\ ~isMountedRef
  /\ fabricRef = 0
  /\ decodes = {}
  /\ canvases >= 2
  /\ staleWrites = {}
  /\ imageRef = <<>>
  /\ bgRectRef = <<>>

\* C31: the history is created empty with each scene: when the init effect
\* sets up a scene (a new canvas for a new source image) the log is empty and
\* the cursor is -1, so that no entry of an earlier scene can be reached by
\* undo or redo.
C31_HistoryPerScene ==
  [][fabricRef' # fabricRef /\ fabricRef' # 0
     => historyRef' = <<>> /\ historyIndexRef' = -1]_vars

\* A second scene whose image is loaded and whose canvas holds no annotation,
\* while the log still holds an entry with the rectangle of the first scene.
C31_Witness ==
  /\ fabricRef = 2
  /\ imageRef # <<>>
  /\ layersOf = 2
  /\ AnnotationObjects(objects) = <<>>
  /\ historyIndexRef = 0
  /\ Len(historyRef) >= 1
  /\ Len(historyRef[1]) = 1
  /\ historyRef[1][1].type = "Rect"

(***************************************************************************)
(* Properties of the gesture state                                         *)
(***************************************************************************)

\* C32: no snapshot pushed to the history holds an object of a gesture in
\* progress (the live shape, the temporary line of an arrow, the temporary
\* rectangle of a blur): the entry pushed is the snapshot of the objects on
\* the canvas that are not live.
C32_NoLiveInHistory ==
  [][lastCall' \in {"appended", "truncated", "evicted"}
     => /\ \A i \in DOMAIN objects' : ~objects'[i].live
        /\ Last(historyRef') = Snapshot(RemoveLive(objects'))]_vars

\* A blur gesture was completed and saved with nothing live on the canvas.
C32_Witness ==
  /\ lastCall = "appended"
  /\ ~pointerDown
  /\ Len(historyRef) >= 2
  /\ \E i \in DOMAIN objects : objects[i].type = "Image"
  /\ \A i \in DOMAIN objects : ~objects[i].live

\* The temporary rectangle of a blur gesture, the temporary line of an arrow
\* gesture (the tools of SwitchTools draw no other line).
IsBlurTemp(o) == o.type = "Rect" /\ o.fill = "#1a1a1a"
IsArrowTemp(o) == o.type = "Line"

\* C33: pointer-up takes the branch of the tool the gesture was begun with:
\* after the pointer-up of a gesture begun with blur the scene holds no
\* temporary rectangle, and after one begun with arrow no un-grouped line,
\* also when the tool was switched during the gesture.
C33_BranchOfStartTool ==
  [][(pointerDown /\ ~pointerDown' /\ activeShapeRef # <<>>)
     => /\ (IsBlurTemp(activeShapeRef[1])
              => \A i \in DOMAIN objects' : ~IsBlurTemp(objects'[i]))
        /\ (IsArrowTemp(activeShapeRef[1])
              => \A i \in DOMAIN objects' : ~IsArrowTemp(objects'[i]))]_vars

\* An arrow gesture has ended with the arrow tool still active: the scene
\* holds the group and no line.
C33_Witness ==
  /\ ~pointerDown
  /\ tool = "arrow"
  /\ lastCall = "appended"
  /\ \E i \in DOMAIN objects : objects[i].type = "Group"
  /\ \A i \in DOMAIN objects : ~IsArrowTemp(objects[i]) /\ ~IsBlurTemp(objects[i])

\* C34: every pointer-up leaves the gesture state idle, whichever branch it
\* takes (arrow, blur accepted, blur discarded, generic shape, no live object):
\* the drawing flag is false, the start point and the live-object reference
\* are cleared.
C34_PointerUpResets ==
  [][(pointerDown /\ ~pointerDown')
       => (~isDrawing' /\ startPointRef' = <<>> /\ activeShapeRef' = <<>>)]_vars

\* A blur drag too small to keep has been discarded by pointer-up, and the
\* gesture state is idle.
C34_Witness ==
  /\ lastCall = "tooSmall"
  /\ ~pointerDown
  /\ ~isDrawing /\ startPointRef = <<>> /\ activeShapeRef = <<>>

-----------------------------------------------------------------------------
(* Properties of the controls                                                 *)

\* A step of a control: the tool, the padding, the background, the corner
\* radius or the zoom changes, or an export is made.
ControlStep ==
  \/ tool' # tool
  \/ padding' # padding
  \/ backgroundColor' # backgroundColor
  \/ borderRadius' # borderRadius
  \/ zoom' # zoom
  \/ exported' # exported

\* The annotation objects of a scene, without the flags the tool effect sets.
AnnotationsOf(objs) ==
  LET keep == SelectSeq(objs, IsAnnotation)
  IN [i \in DOMAIN keep |-> [keep[i] EXCEPT !.selectable = TRUE, !.evented = TRUE]]

\* C35: a tool switch, a change of padding, background, corner radius or
\* zoom, and an export append no history entry, leave currentIndex as it is,
\* and add or remove no annotation object.
C35_ControlsKeepHistory ==
  [][ControlStep
       => /\ historyRef' = historyRef
          /\ historyIndexRef' = historyIndexRef
          /\ AnnotationsOf(objects') = AnnotationsOf(objects)]_vars

\* Every control was used and an export made, with one annotation object
\* in the scene and the cursor moved back from the last of two entries.
C35_Witness ==
  /\ exported # <<>> /\ exported[1].dataURL
  /\ tool = "select" /\ padding # InitialPadding
  /\ zoom = 2000 /\ borderRadius = 12 /\ backgroundColor = White
  /\ Len(AnnotationsOf(objects)) = 1
  /\ Len(historyRef) = 2 /\ historyIndexRef = 0

-----------------------------------------------------------------------------
(* Properties of a completed restore                                          *)

\* The object o is the serialised object d in variant, position, rotation
\* and scale, and so are its children, one by one.
RECURSIVE SamePlacement(_, _)
SamePlacement(o, d) ==
  /\ o.type = d.type
  /\ o.left = d.left /\ o.top = d.top
  /\ o.angle = d.angle
  /\ o.scaleX = d.scaleX /\ o.scaleY = d.scaleY
  /\ Len(o.objects) = Len(d.objects)
  /\ \A k \in DOMAIN d.objects : SamePlacement(o.objects[k], d.objects[k])

\* The last handler was an undo, a redo or the end of a suspended restore,
\* no restore is under way, and the cursor is on an entry.
RestoreCompletedOnEntry ==
  /\ lastCall \in {"undo", "redo", "resume"}
  /\ restores = <<>> /\ ~isRestoringRef
  /\ historyIndexRef + 1 \in DOMAIN historyRef

\* C36: after a restore has completed, the annotation objects of the scene
\* are those of the entry under the cursor: as many, in the same order, each
\* of the same variant, position, rotation and scale, children of groups
\* included, also for a blur region moved, scaled or rotated before the save.
C36_RestoreEqualsEntry ==
  RestoreCompletedOnEntry
  => LET data == historyRef[historyIndexRef + 1]
         shown == AnnotationObjects(objects)
     IN /\ Len(shown) = Len(data)
        /\ \A k \in DOMAIN data : SamePlacement(shown[k], data[k])

\* A restore has put back an entry that holds a blur region with its
\* metadata, and the scene shows a blur region for it.
C36_Witness ==
  /\ RestoreCompletedOnEntry
  /\ LET data == historyRef[historyIndexRef + 1]
         shown == AnnotationObjects(objects)
     IN /\ Len(shown) = Len(data)
        /\ \E k \in DOMAIN data :
             /\ data[k].type = "Image" /\ data[k].blurRegionData # <<>>
             /\ shown[k].type = "Image" /\ shown[k].blurRegionData # <<>>

-----------------------------------------------------------------------------
(* Properties of the durable state of a blur region                           *)

\* The entry holds the pixels of a blur region: a serialised image with the
\* metadata of a blur region and a src.
HoldsPixels(data) ==
  \E k \in DOMAIN data :
    data[k].type = "Image" /\ data[k].blurRegionData # <<>> /\ data[k].src

\* The scene shows an image decoded from a stored src: an annotation image
\* that createBlurRegion did not make.
ShowsStoredPixels(objs) ==
  \E i \in DOMAIN objs :
    IsAnnotation(objs[i]) /\ objs[i].type = "Image" /\ objs[i].blurRegionData = <<>>

\* C37: what a history entry keeps of a blur region is its originalBounds and
\* blockSize and its transform, never its pixels, and no restore shows a blur
\* region decoded from stored pixels instead of resampled from the source
\* image.
C37_NoStoredPixels ==
  /\ \A n \in DOMAIN historyRef : ~HoldsPixels(historyRef[n])
  /\ ~ShowsStoredPixels(objects)

\* A blur region was drawn and saved, with its originalBounds and blockSize
\* in the entry under the cursor.
C37_Witness ==
  /\ lastCall = "appended"
  /\ historyIndexRef + 1 \in DOMAIN historyRef
  /\ \E k \in DOMAIN historyRef[historyIndexRef + 1] :
       LET d == historyRef[historyIndexRef + 1][k]
       IN /\ d.type = "Image"
          /\ d.blurRegionData # <<>>
          /\ d.blurRegionData[1].blockSize = defaultBlockSize

-----------------------------------------------------------------------------
(* Properties of the drag geometry                                            *)

\* The live shape after a pointer-move to pt, given the shape before it and
\* the start point of the gesture: the corner nearest the origin and the
\* extent for a rectangle or an ellipse, the free endpoint for a line.
DraggedTo(before, after, start, pt) ==
  CASE before.type = "Rect" ->
         /\ after.left = Min(start.x, pt.x) /\ after.top = Min(start.y, pt.y)
         /\ after.width = Abs(pt.x - start.x) /\ after.height = Abs(pt.y - start.y)
         /\ after.width >= 0 /\ after.height >= 0
    [] before.type = "Ellipse" ->
         /\ after.left = Min(start.x, pt.x) /\ after.top = Min(start.y, pt.y)
         /\ 2 * after.rx = Abs(pt.x - start.x) /\ 2 * after.ry = Abs(pt.y - start.y)
         /\ after.rx >= 0 /\ after.ry >= 0
    [] before.type = "Line" ->
         /\ after = [before EXCEPT !.x2 = pt.x, !.y2 = pt.y]
         /\ after.x1 = start.x /\ after.y1 = start.y
    [] OTHER -> FALSE

\* C38: a pointer-move during a gesture puts the corner of a rectangle or an
\* ellipse at the smaller coordinate of start point and pointer on each axis
\* and gives it the distance between them as its size (half of it as radii),
\* in each of the four directions; of a line it changes the free endpoint
\* only, the other one staying at the start point.
C38_DragGeometry ==
  [][\A pt \in DragPoints :
       handleMouseMove(pt)
       => /\ activeShapeRef' # <<>>
          /\ DraggedTo(activeShapeRef[1], activeShapeRef'[1], startPointRef[1], pt)
          /\ \E i \in DOMAIN objects' : objects'[i] = activeShapeRef'[1]]_vars

\* An ellipse begun at (100,100) and dragged up and to the left, to (0,0).
C38_Witness ==
  /\ pointerDown /\ isDrawing
  /\ startPointRef = <<Pt(100, 100)>>
  /\ activeShapeRef # <<>>
  /\ activeShapeRef[1].type = "Ellipse"
  /\ activeShapeRef[1].left = 0 /\ activeShapeRef[1].top = 0
  /\ activeShapeRef[1].rx = 50 /\ activeShapeRef[1].ry = 50

====
